---- MODULE Spec2Model ----
(***************************************************************************)
(* Model of the lead scraper (src/lead-scraper/scraper.py): its scoring,   *)
(* its reconciliation store, one run of main, the collector and the scroll *)
(* loop, extract_detail_field and _extract_quality_signals; and of the     *)
(* tracking UI (src/lead-scraper/crm.py): its writes to the same store and *)
(* its pending slot.                                                       *)
(*                                                                         *)
(* Encodings:                                                              *)
(*  - a Python float rating d.d is the integer of its tenths (3.5 -> 35);  *)
(*  - SQL NULL / Python None in a numeric column is NullNum, in a text     *)
(*    column NullText;                                                     *)
(*  - the newest-review text, which the code searches with substring and   *)
(*    regular-expression tests, is a sequence of one-character strings;    *)
(*    every other text is a TLA+ string.                                   *)
(***************************************************************************)
EXTENDS Integers, Sequences, FiniteSets, TLC

NullNum == -1
NullText == "<NULL>"

\* ------------------------------------------------------------------------
\* Text helpers (Python str and re semantics on character sequences)
\* ------------------------------------------------------------------------

Digits == {"0", "1", "2", "3", "4", "5", "6", "7", "8", "9"}

DigitVal(c) ==
    CASE c = "0" -> 0 [] c = "1" -> 1 [] c = "2" -> 2 [] c = "3" -> 3
      [] c = "4" -> 4 [] c = "5" -> 5 [] c = "6" -> 6 [] c = "7" -> 7
      [] c = "8" -> 8 [] c = "9" -> 9

DigitStr(d) ==
    CASE d = 0 -> "0" [] d = 1 -> "1" [] d = 2 -> "2" [] d = 3 -> "3"
      [] d = 4 -> "4" [] d = 5 -> "5" [] d = 6 -> "6" [] d = 7 -> "7"
      [] d = 8 -> "8" [] d = 9 -> "9"

\* str.lower() on one character
LowerChar(c) ==
    CASE c = "Y" -> "y" [] c = "E" -> "e" [] c = "A" -> "a" [] c = "R" -> "r"
      [] c = "M" -> "m" [] c = "O" -> "o" [] c = "N" -> "n" [] c = "T" -> "t"
      [] c = "H" -> "h" [] c = "S" -> "s" [] c = "G" -> "g" [] c = "D" -> "d"
      [] c = "P" -> "p"
      [] OTHER -> c

Lower(text) == [i \in 1..Len(text) |-> LowerChar(text[i])]

\* pat occurs in text at position i
MatchAt(text, pat, i) ==
    /\ i + Len(pat) - 1 <= Len(text)
    /\ \A k \in 1..Len(pat) : text[i + k - 1] = pat[k]

\* Python's `pat in text`
Contains(text, pat) == \E i \in 1..(Len(text) + 1) : MatchAt(text, pat, i)

\* the end of the longest run of characters of `class` that starts at i
\* (i - 1 when text[i] is not in class)
RECURSIVE RunEnd(_, _, _)
RunEnd(text, class, i) ==
    IF i <= Len(text) /\ text[i] \in class
    THEN RunEnd(text, class, i + 1)
    ELSE i - 1

\* int() of the digit characters text[i..j]
RECURSIVE ParseInt(_, _, _)
ParseInt(text, i, j) ==
    IF j < i THEN 0 ELSE 10 * ParseInt(text, i, j - 1) + DigitVal(text[j])

YearPat == <<"y", "e", "a", "r">>
MonthPat == <<"m", "o", "n", "t", "h">>
Spaces == {" "}

\* re.search(r'(\d+)\s*month', text): the start positions at which the
\* pattern matches. \d+ and \s* are greedy and "month" starts with neither a
\* digit nor a space, so a match at i takes the whole digit run and the whole
\* space run after it.
MonthMatchStarts(text) ==
    {i \in 1..Len(text) :
        /\ text[i] \in Digits
        /\ MatchAt(text, MonthPat,
                   RunEnd(text, Spaces, RunEnd(text, Digits, i) + 1) + 1)}

Min(S) == CHOOSE x \in S : \A y \in S : x <= y

\* int(m.group(1)) of the leftmost match
MonthMatchValue(text) ==
    LET i == Min(MonthMatchStarts(text))
    IN  ParseInt(text, i, RunEnd(text, Digits, i))

\* A mutant of the month test: any "N month" of the text counts, not the
\* first one only.
_review_is_stale_AnyMonth(newest_review_text) ==
    IF newest_review_text = <<>> THEN TRUE
    ELSE LET text == Lower(newest_review_text)
         IN  IF Contains(text, YearPat) THEN TRUE
             ELSE \E i \in MonthMatchStarts(text) :
                     ParseInt(text, i, RunEnd(text, Digits, i)) >= 6

_review_is_stale(newest_review_text) ==
    IF newest_review_text = <<>> THEN TRUE
    ELSE LET text == Lower(newest_review_text)
         IN  IF Contains(text, YearPat) THEN TRUE
             ELSE IF MonthMatchStarts(text) # {} /\ MonthMatchValue(text) >= 6
                  THEN TRUE
                  ELSE FALSE

\* ------------------------------------------------------------------------
\* Lead scoring
\* ------------------------------------------------------------------------

\* Python's `x or 0` on an int-or-None
OrZero(x) == IF x = NullNum \/ x = 0 THEN 0 ELSE x

\* f"{rating}" of a float with one decimal (of None: "None")
FmtFloat(r) ==
    IF r = NullNum THEN "None"
    ELSE DigitStr(r \div 10) \o "." \o DigitStr(r % 10)

\* one `if cond: score += pts; reasons.append(reason)` statement
ScoreStep(acc, cond, pts, reason) ==
    IF cond THEN [score |-> acc.score + pts,
                  reasons |-> Append(acc.reasons, reason)]
    ELSE acc

\* A mutant of the rating test: the `is not None` guard dropped.
RatingLow_NoNullCheck(rating) == rating < 40

\* rating is not None and rating < 4.0
RatingLow(rating) == rating # NullNum /\ rating < 40

score_lead(listing) ==
    LET review_count == OrZero(listing.review_count)
        rating == listing.rating
        photo_count == OrZero(listing.photo_count)
        has_desc == listing.has_description
        has_svc == listing.has_services
        owner_resp == listing.owner_responds
        newest == listing.newest_review
        website == listing.website
        s0 == [score |-> 0, reasons |-> <<>>]
        s1 == ScoreStep(s0, review_count < 10, 3, "<10 reviews")
        s2 == ScoreStep(s1, ~owner_resp, 2, "no owner responses")
        s3 == ScoreStep(s2, photo_count < 5, 2, "<5 photos")
        s4 == ScoreStep(s3, RatingLow(rating), 2, "rating " \o FmtFloat(rating))
        s5 == ScoreStep(s4, ~has_desc, 1, "no description")
        s6 == ScoreStep(s5, ~has_svc, 1, "no services listed")
        s7 == ScoreStep(s6, _review_is_stale(newest), 2, "no recent reviews")
        s8 == ScoreStep(s7, website = "", 1, "no website")
    IN  s8

\* ------------------------------------------------------------------------
\* Inputs: newest-review texts, listings as the collector and the enricher
\* leave them, queries, tracking-UI requests
\* ------------------------------------------------------------------------

TxtNone == <<>>
TxtYear == <<"a", " ", "y", "e", "a", "r", " ", "a", "g", "o">>
TxtYears == <<"2", " ", "y", "e", "a", "r", "s", " ", "a", "g", "o">>
TxtMonths3 == <<"3", " ", "m", "o", "n", "t", "h", "s", " ", "a", "g", "o">>
TxtMonths8 == <<"8", " ", "m", "o", "n", "t", "h", "s", " ", "a", "g", "o">>
TxtDays == <<"2", " ", "d", "a", "y", "s", " ", "a", "g", "o">>

ReviewTexts == {TxtNone, TxtYear, TxtYears, TxtMonths3, TxtMonths8, TxtDays}

\* the dict extract_listings_from_search appends for one anchor
Stub(name, rating, review_count, category, href) ==
    [name |-> name, rating |-> rating, review_count |-> review_count,
     category |-> category, maps_link |-> href,
     address |-> "", phone |-> "", website |-> "", photo_url |-> "",
     photo_count |-> 0, has_description |-> FALSE, has_services |-> FALSE,
     owner_responds |-> FALSE, newest_review |-> <<>>, has_hours |-> FALSE,
     lead_score |-> 0, score_reasons |-> ""]

\* listings after detail enrichment (scrape_listing_detail), before scoring
FullAce ==
    [Stub("Ace Plumbing", 45, 120, "Plumber", "maps/place/ace") EXCEPT
        !.address = "1 Main St", !.phone = "(732) 555-0101",
        !.website = "https://ace.example", !.photo_url = "https://lh3.googleusercontent.com/ace",
        !.photo_count = 12, !.has_description = TRUE, !.has_services = TRUE,
        !.owner_responds = TRUE, !.newest_review = TxtDays, !.has_hours = TRUE]

\* another display name whose anchor carries the same link; its detail page
\* timed out and its card showed no rating, count or category
BareAlias == Stub("Ace Plumbing & Drains", NullNum, NullNum, "", "maps/place/ace")

Roofer ==
    [Stub("Cat Roofing", 40, 10, "Roofer", "maps/place/cat") EXCEPT
        !.website = "https://cat.example", !.photo_count = 5,
        !.owner_responds = TRUE, !.newest_review = TxtMonths3]

Samples == {FullAce, BareAlias, Roofer}

Links == {x.maps_link : x \in Samples}

Names == {x.name : x \in Samples}

Queries == {"plumbers nj", "roofers nj"}

\* the most listings one run collects
MaxBatch == 2

\* what the collector can hand on: non-empty, no two listings with one name
\* (extract_listings_from_search keeps the first anchor of each name)
Batches ==
    UNION {{b \in [1..n -> Samples] :
               \A i, j \in 1..n : i # j => b[i].name # b[j].name} :
           n \in 1..MaxBatch}

\* bodies of POST /api/update: what the edit form and the outreach buttons
\* send, and one body of another client (do_POST takes any JSON object)
UpdateRequests ==
    {[maps_link |-> "maps/place/ace", contact_status |-> "contacted",
      last_contacted |-> "2026-01-05", notes |-> "call back"],
     [maps_link |-> "maps/place/ace", contact_status |-> "do_not_contact",
      last_contacted |-> "", notes |-> ""],
     [maps_link |-> "maps/place/cat", contact_status |-> "replied",
      last_contacted |-> "2026-02-01", notes |-> ""],
     [maps_link |-> "maps/place/cat", contact_status |-> "interested",
      last_contacted |-> "", notes |-> "wants a quote"]}

\* bodies of POST /api/delete
DeleteRequests == SUBSET Links \ {{}}

\* ------------------------------------------------------------------------
\* Phase 3 of main: score every listing, then sort by score, best first
\* ------------------------------------------------------------------------

\* ", ".join(reasons)
RECURSIVE Join(_)
Join(reasons) ==
    IF reasons = <<>> THEN ""
    ELSE IF Len(reasons) = 1 THEN reasons[1]
    ELSE reasons[1] \o ", " \o Join(Tail(reasons))

Scored(listing) ==
    LET r == score_lead(listing)
    IN  [listing EXCEPT !.lead_score = r.score,
                        !.score_reasons = Join(r.reasons)]

\* x placed after every element whose score is at least its own
InsertDesc(sorted, x) ==
    LET k == Cardinality({i \in 1..Len(sorted) : sorted[i].lead_score >= x.lead_score})
    IN  SubSeq(sorted, 1, k) \o <<x>> \o SubSeq(sorted, k + 1, Len(sorted))

\* list.sort(key=lead_score, reverse=True): stable
RECURSIVE SortDesc(_)
SortDesc(s) ==
    IF s = <<>> THEN <<>>
    ELSE InsertDesc(SortDesc(SubSeq(s, 1, Len(s) - 1)), s[Len(s)])

ScoreAll(listings) == SortDesc([i \in 1..Len(listings) |-> Scored(listings[i])])

\* ------------------------------------------------------------------------
\* The leads table and the statements run against it
\* ------------------------------------------------------------------------

\* sqlite3's binding of a Python bool to an INTEGER column
BindBool(b) == IF b THEN 1 ELSE 0

HasRow(rows, link) == \E i \in 1..Len(rows) : rows[i].maps_link = link

\* the first row with the link (callers check HasRow)
RowOf(rows, link) ==
    rows[Min({i \in 1..Len(rows) : rows[i].maps_link = link})]

\* SELECT contact_status, last_contacted, notes, scraped_at ... fetchone():
\* <<>> for None, else a one-element sequence holding the tuple
SelectRow(rows, link) ==
    IF HasRow(rows, link)
    THEN LET r == RowOf(rows, link)
         IN  <<[contact_status |-> r.contact_status,
                last_contacted |-> r.last_contacted,
                notes |-> r.notes, scraped_at |-> r.scraped_at]>>
    ELSE <<>>

\* A mutant of the INSERT: `now` bound once, scraped_at left NULL.
InsertRow_NoCreatedStamp(lead, query, now) ==
    [name |-> lead.name, address |-> lead.address, phone |-> lead.phone,
     website |-> lead.website, rating |-> lead.rating,
     review_count |-> lead.review_count, category |-> lead.category,
     maps_link |-> lead.maps_link, photo_url |-> lead.photo_url,
     photo_count |-> lead.photo_count,
     has_description |-> BindBool(lead.has_description),
     has_services |-> BindBool(lead.has_services),
     owner_responds |-> BindBool(lead.owner_responds),
     newest_review |-> lead.newest_review,
     has_hours |-> BindBool(lead.has_hours),
     lead_score |-> lead.lead_score, score_reasons |-> lead.score_reasons,
     contact_status |-> "new", last_contacted |-> NullText, notes |-> NullText,
     query |-> query, scraped_at |-> NullNum, updated_at |-> now]

\* the row INSERT INTO leads (...) VALUES (..., 'new', ?, ?, ?) creates;
\* last_contacted and notes are not given and default to NULL
InsertRow(lead, query, now) ==
    [name |-> lead.name, address |-> lead.address, phone |-> lead.phone,
     website |-> lead.website, rating |-> lead.rating,
     review_count |-> lead.review_count, category |-> lead.category,
     maps_link |-> lead.maps_link, photo_url |-> lead.photo_url,
     photo_count |-> lead.photo_count,
     has_description |-> BindBool(lead.has_description),
     has_services |-> BindBool(lead.has_services),
     owner_responds |-> BindBool(lead.owner_responds),
     newest_review |-> lead.newest_review,
     has_hours |-> BindBool(lead.has_hours),
     lead_score |-> lead.lead_score, score_reasons |-> lead.score_reasons,
     contact_status |-> "new", last_contacted |-> NullText, notes |-> NullText,
     query |-> query, scraped_at |-> now, updated_at |-> now]

\* Mutants of the UPDATE's SET list: one that resets the tracking columns as a
\* REPLACE would, one that writes back the tracking values the SELECT read,
\* one that keeps an old text where the new one is empty, one that leaves
\* updated_at out.
UpdateRow_NoTouch(r, sel, lead, query, now) ==
    [InsertRow(lead, query, now) EXCEPT
        !.contact_status = r.contact_status,
        !.last_contacted = r.last_contacted,
        !.notes = r.notes, !.scraped_at = r.scraped_at,
        !.updated_at = r.updated_at]

UpdateRow_Replace(r, sel, lead, query, now) == InsertRow(lead, query, now)

UpdateRow_WriteBack(r, sel, lead, query, now) ==
    [InsertRow(lead, query, now) EXCEPT
        !.contact_status = sel.contact_status,
        !.last_contacted = sel.last_contacted,
        !.notes = sel.notes, !.scraped_at = sel.scraped_at]

UpdateRow_KeepNonEmpty(r, sel, lead, query, now) ==
    [r EXCEPT
        !.name = lead.name,
        !.address = IF lead.address = "" THEN r.address ELSE lead.address,
        !.phone = IF lead.phone = "" THEN r.phone ELSE lead.phone,
        !.website = IF lead.website = "" THEN r.website ELSE lead.website,
        !.rating = lead.rating, !.review_count = lead.review_count,
        !.category = lead.category, !.photo_url = lead.photo_url,
        !.photo_count = lead.photo_count,
        !.has_description = BindBool(lead.has_description),
        !.has_services = BindBool(lead.has_services),
        !.owner_responds = BindBool(lead.owner_responds),
        !.newest_review = lead.newest_review,
        !.has_hours = BindBool(lead.has_hours),
        !.lead_score = lead.lead_score, !.score_reasons = lead.score_reasons,
        !.query = query, !.updated_at = now]

\* A mutant of the UPDATE's SET list: lead_score and score_reasons are left
\* out of it.
UpdateRow_KeepScore(r, sel, lead, query, now) ==
    [r EXCEPT
        !.name = lead.name, !.address = lead.address, !.phone = lead.phone,
        !.website = lead.website, !.rating = lead.rating,
        !.review_count = lead.review_count, !.category = lead.category,
        !.photo_url = lead.photo_url, !.photo_count = lead.photo_count,
        !.has_description = BindBool(lead.has_description),
        !.has_services = BindBool(lead.has_services),
        !.owner_responds = BindBool(lead.owner_responds),
        !.newest_review = lead.newest_review,
        !.has_hours = BindBool(lead.has_hours),
        !.query = query, !.updated_at = now]

\* UPDATE leads SET name=?, ..., query=?, updated_at=? applied to a row r with
\* the link; sel is the tuple the SELECT returned, which the statement does
\* not use
UpdateRow(r, sel, lead, query, now) ==
    [r EXCEPT
        !.name = lead.name, !.address = lead.address, !.phone = lead.phone,
        !.website = lead.website, !.rating = lead.rating,
        !.review_count = lead.review_count, !.category = lead.category,
        !.photo_url = lead.photo_url, !.photo_count = lead.photo_count,
        !.has_description = BindBool(lead.has_description),
        !.has_services = BindBool(lead.has_services),
        !.owner_responds = BindBool(lead.owner_responds),
        !.newest_review = lead.newest_review,
        !.has_hours = BindBool(lead.has_hours),
        !.lead_score = lead.lead_score, !.score_reasons = lead.score_reasons,
        !.query = query, !.updated_at = now]

\* the UPDATE ... WHERE maps_link=? over the table
ExecUpdate(rows, sel, lead, query, now) ==
    [i \in 1..Len(rows) |->
        IF rows[i].maps_link = lead.maps_link
        THEN UpdateRow(rows[i], sel, lead, query, now)
        ELSE rows[i]]

\* maps_link TEXT UNIQUE: whether a row with the link may be added
UniqueOk(rows, link) == ~HasRow(rows, link)

\* A mutant of the branch of upsert_leads: every listing is inserted, and
\* nothing refuses a second row with the link.
UpsertStatement_AlwaysInsert(rows, sel, lead, query, now) ==
    [ok |-> TRUE, rows |-> Append(rows, InsertRow(lead, query, now))]

\* `if row: UPDATE ... else: INSERT ...` of upsert_leads, run on the rows the
\* connection sees: the rows afterwards, or ok = FALSE when the INSERT raises
\* sqlite3.IntegrityError
UpsertStatement(rows, sel, lead, query, now) ==
    IF sel # <<>>
    THEN [ok |-> TRUE, rows |-> ExecUpdate(rows, sel[1], lead, query, now)]
    ELSE IF UniqueOk(rows, lead.maps_link)
         THEN [ok |-> TRUE, rows |-> Append(rows, InsertRow(lead, query, now))]
         ELSE [ok |-> FALSE, rows |-> rows]

\* `x or None` of _update_lead on a text of the request
OrNone(x) == IF x = "" THEN NullText ELSE x

\* A mutant of _update_lead: an upsert that creates the row it does not find.
ExecCrmUpdate_Creates(rows, data, now) ==
    IF HasRow(rows, data.maps_link)
    THEN [i \in 1..Len(rows) |->
            IF rows[i].maps_link = data.maps_link
            THEN [rows[i] EXCEPT !.contact_status = data.contact_status,
                                 !.last_contacted = OrNone(data.last_contacted),
                                 !.notes = OrNone(data.notes),
                                 !.updated_at = now]
            ELSE rows[i]]
    ELSE Append(rows,
            [InsertRow(Stub("", NullNum, NullNum, "", data.maps_link), "", now)
                EXCEPT !.contact_status = data.contact_status])

\* A mutant of _update_lead: the UPDATE without its WHERE clause.
ExecCrmUpdate_NoWhere(rows, data, now) ==
    [i \in 1..Len(rows) |->
        [rows[i] EXCEPT !.contact_status = data.contact_status,
                        !.last_contacted = OrNone(data.last_contacted),
                        !.notes = OrNone(data.notes),
                        !.updated_at = now]]

\* UPDATE leads SET contact_status=?, last_contacted=?, notes=?, updated_at=?
\* WHERE maps_link=?
ExecCrmUpdate(rows, data, now) ==
    [i \in 1..Len(rows) |->
        IF rows[i].maps_link = data.maps_link
        THEN [rows[i] EXCEPT !.contact_status = data.contact_status,
                             !.last_contacted = OrNone(data.last_contacted),
                             !.notes = OrNone(data.notes),
                             !.updated_at = now]
        ELSE rows[i]]

\* a delete that only answers and leaves the rows where they are
ExecCrmDelete_KeepsRows(rows, maps_links) == rows

\* DELETE FROM leads WHERE maps_link IN (...)
ExecCrmDelete(rows, maps_links) ==
    SelectSeq(rows, LAMBDA r : r.maps_link \notin maps_links)

\* ------------------------------------------------------------------------
\* State
\* ------------------------------------------------------------------------

VARIABLES
    table,      \* the committed rows of leads.db, in insertion order
    inTxn,      \* the pipeline's connection has an open write transaction
    work,       \* the rows that transaction has written so far, uncommitted
    pc,         \* where the pipeline run is
    batch,      \* main's `listings`
    query,      \* main's `query`
    idx,        \* upsert_leads: position of `lead` in listings
    row,        \* upsert_leads: what the SELECT returned for `lead`
    now,        \* upsert_leads: the timestamp taken before the loop
    clock,      \* the wall clock: the latest timestamp anyone has read
    failedAt,   \* the position at which this run's store write raised, or 0
    lastCrm,    \* history: per link, the values of the last /api/update that hit its row
    lastScrape, \* history: per link, the listing and query last committed for it
    crmSince,   \* history: links the tracking UI has written since the last commit for them
    missed,     \* history: links an /api/update named while they had no row
    gone,       \* history: per link, the tracking state of the row deleted last
    sig,        \* the listing handed to score_lead on its own
    res,        \* what score_lead returned for sig, <<>> before the call
    newest,     \* the text handed to _review_is_stale on its own
    stale,      \* what _review_is_stale returned for it, <<>> before the call
    min_score,  \* main's `min_score`
    show_all,   \* main's `show_all`
    driver,     \* the browser: "none" before create_driver, "open", "quit"
    screenshot, \* /tmp/scraper_debug.png has been written by this run
    collected,  \* history: main's `listings` as extract_listings_from_search returned it
    pos,        \* main, phase 2: position of `listing` in listings
    detail,     \* history: per name, how its scrape_listing_detail call ended
    output,     \* the files save_outputs wrote, <<>> before it has run
    exit_code,  \* the process's exit status, NullNum while it runs
    table0,     \* history: the committed rows when the run started
    max_listings, \* the `max_listings` handed to the collector's functions
    cards,      \* the anchors find_elements returns to extract_listings_from_search
    found,      \* what extract_listings_from_search returned, <<>> before the call
    scroll,     \* where scroll_results_panel is: "start", "loop", "done"
    last_count, \* scroll_results_panel's `last_count`
    stale_rounds, \* scroll_results_panel's `stale_rounds`
    current_count, \* scroll_results_panel's `current_count`, NullNum before round 1
    no_increase, \* history: the latest rounds in a row that showed no increase
    rounds,     \* history: the passes of the while loop so far, up to RoundCap
    fell,       \* history: some round showed fewer anchors than the round before
    elements,   \* extract_detail_field: per selector, <<>> or the element found
    params,     \* extract_detail_field: attr_patterns, text_pattern, href_filter
    field,      \* what extract_detail_field returned, <<>> before the call
    dom,        \* what the loaded page gives _extract_quality_signals' lookups
    signals,    \* how _extract_quality_signals ended, <<>> before the call
    PENDING,    \* crm.py's module-level dict PENDING
    requests,   \* the requests sent to the tracking UI's server, oldest first
    lastPost    \* history: the POST /api/pending handled last, 0 when none

vars == <<table, inTxn, work, pc, batch, query, idx, row, now, clock,
          failedAt, lastCrm, lastScrape, crmSince, missed, gone, sig, res,
          newest,
          stale, min_score, show_all, driver, screenshot, collected, pos,
          detail, output, exit_code, table0, max_listings, cards, found,
          scroll, last_count, stale_rounds, current_count, no_increase,
          rounds, fell, elements, params, field, dom, signals, PENDING,
          requests, lastPost>>

storeVars == <<table, inTxn, work, pc, batch, query, idx, row, now, clock,
               failedAt, lastCrm, lastScrape, crmSince, missed, gone>>

scoreVars == <<sig, res>>

staleVars == <<newest, stale>>

mainVars == <<min_score, show_all, driver, screenshot, collected, pos, detail,
              output, exit_code, table0>>

extractVars == <<cards, found>>

scrollVars ==
    <<scroll, last_count, stale_rounds, current_count, no_increase, rounds,
      fell>>

fieldVars == <<elements, params, field>>

signalVars == <<dom, signals>>

pendingVars == <<PENDING, requests, lastPost>>

\* the variables of what is checked apart from a pipeline run
apartVars == <<fieldVars, signalVars, pendingVars>>

\* the variables the store's actions never write
restVars ==
    <<staleVars, mainVars, max_listings, extractVars, scrollVars, apartVars>>

\* the most timestamps read in one behaviour
MaxClock == 3

\* the rows a statement on the pipeline's connection sees
View == IF inTxn THEN work ELSE table

InitStore ==
    /\ table = <<>>
    /\ inTxn = FALSE
    /\ work = <<>>
    /\ pc = "idle"
    /\ batch = <<>>
    /\ query = ""
    /\ idx = 0
    /\ row = <<>>
    /\ now = 0
    /\ clock = 0
    /\ failedAt = 0
    /\ lastCrm = [l \in Links |-> <<>>]
    /\ lastScrape = [l \in Links |-> <<>>]
    /\ crmSince = {}
    /\ missed = {}
    /\ gone = [l \in Links |-> <<>>]

\* no call of _review_is_stale on its own
StaleIdle ==
    /\ newest = <<>>
    /\ stale = <<>>

\* no run of main from its first line
MainIdle ==
    /\ min_score = 5
    /\ show_all = FALSE
    /\ driver = "none"
    /\ screenshot = FALSE
    /\ collected = <<>>
    /\ pos = 0
    /\ detail = [n \in Names |-> "none"]
    /\ output = <<>>
    /\ exit_code = NullNum
    /\ table0 = <<>>

\* no call of extract_listings_from_search on its own
ExtractIdle ==
    /\ cards = <<>>
    /\ found = <<>>

\* no call of scroll_results_panel on its own
ScrollIdle ==
    /\ scroll = "start"
    /\ last_count = 0
    /\ stale_rounds = 0
    /\ current_count = NullNum
    /\ no_increase = 0
    /\ rounds = 0
    /\ fell = FALSE

CollectorIdle == max_listings = 0 /\ ExtractIdle /\ ScrollIdle

FieldIdle ==
    /\ elements = <<>>
    /\ params = <<>>
    /\ field = <<>>

SignalIdle ==
    /\ dom = <<>>
    /\ signals = <<>>

PendingIdle ==
    /\ PENDING = [phone |-> "", msg |-> ""]
    /\ requests = <<>>
    /\ lastPost = 0

ApartIdle == FieldIdle /\ SignalIdle /\ PendingIdle

RestIdle == StaleIdle /\ MainIdle /\ CollectorIdle /\ ApartIdle

ScoreIdle ==
    /\ sig = BareAlias
    /\ res = <<>>

Init ==
    /\ InitStore
    /\ ScoreIdle
    /\ RestIdle

\* ------------------------------------------------------------------------
\* The pipeline: main from phase 3 on, and upsert_leads
\* ------------------------------------------------------------------------

\* main, phase 3: the collected and enriched listings are scored and sorted
ScoreLeads(listings, q) ==
    /\ pc = "idle"
    /\ clock < MaxClock
    /\ batch' = ScoreAll(listings)
    /\ query' = q
    /\ pc' = "scored"
    /\ UNCHANGED <<table, inTxn, work, idx, row, now, clock, failedAt, lastCrm,
                   lastScrape, crmSince, missed, gone, sig, res, restVars>>

\* init_db (CREATE TABLE IF NOT EXISTS: the rows stay), then upsert_leads up
\* to its loop: connect, now = datetime.now()
UpsertBegin ==
    /\ pc = "scored"
    /\ now' = clock + 1
    /\ clock' = clock + 1
    /\ idx' = 1
    /\ row' = <<>>
    /\ pc' = "select"
    /\ UNCHANGED <<table, inTxn, work, batch, query, failedAt, lastCrm,
                   lastScrape, crmSince, missed, gone, sig, res, restVars>>

\* the SELECT for listings[idx]
UpsertSelect ==
    /\ pc = "select"
    /\ row' = SelectRow(View, batch[idx].maps_link)
    /\ pc' = "write"
    /\ UNCHANGED <<table, inTxn, work, batch, query, idx, now, clock, failedAt,
                   lastCrm, lastScrape, crmSince, missed, gone, sig, res,
                   restVars>>

\* the UPDATE or INSERT for listings[idx]; sqlite3 opens the transaction
\* before the first of them and the loop goes on without committing
UpsertWrite ==
    /\ pc = "write"
    /\ LET r == UpsertStatement(View, row, batch[idx], query, now)
       IN  /\ r.ok
           /\ work' = r.rows
    /\ inTxn' = TRUE
    /\ IF idx < Len(batch)
       THEN /\ idx' = idx + 1
            /\ pc' = "select"
       ELSE /\ idx' = idx
            /\ pc' = "commit"
    /\ UNCHANGED <<table, batch, query, row, now, clock, failedAt, lastCrm,
                   lastScrape, crmSince, missed, gone, sig, res, restVars>>

\* the statement raises (sqlite3.Error: the disk is full, the file is locked
\* past the timeout, the UNIQUE constraint fails): nothing catches it, the
\* loop is left without conn.commit() and the open transaction is rolled back
UpsertWriteFails ==
    /\ pc = "write"
    /\ failedAt' = idx
    /\ inTxn' = FALSE
    /\ work' = <<>>
    /\ pc' = "raised"
    /\ UNCHANGED <<table, batch, query, idx, row, now, clock, lastCrm,
                   lastScrape, crmSince, missed, gone, sig, res, restVars>>

\* the last listing of the batch that carries the link
LastFor(listings, link) ==
    listings[CHOOSE i \in 1..Len(listings) :
                /\ listings[i].maps_link = link
                /\ \A j \in (i + 1)..Len(listings) : listings[j].maps_link # link]

BatchLinks(listings) == {listings[i].maps_link : i \in 1..Len(listings)}

\* conn.commit() after the loop, conn.close()
UpsertCommit ==
    /\ pc = "commit"
    /\ table' = View
    /\ inTxn' = FALSE
    /\ work' = <<>>
    /\ pc' = "stored"
    /\ lastScrape' =
         [l \in Links |->
            IF l \in BatchLinks(batch) /\ HasRow(View, l)
            THEN <<[lead |-> LastFor(batch, l), query |-> query]>>
            ELSE lastScrape[l]]
    /\ lastCrm' =
         [l \in Links |->
            IF ~HasRow(table, l) /\ HasRow(View, l) THEN <<>> ELSE lastCrm[l]]
    /\ crmSince' = crmSince \ BatchLinks(batch)
    /\ missed' = {l \in missed : ~HasRow(View, l)}
    /\ gone' = gone
    /\ UNCHANGED <<batch, query, idx, row, now, clock, failedAt, sig, res,
                   restVars>>

\* the rest of main after upsert_leads returned (filter, save_outputs,
\* summary) or raised (the exception leaves main): the process ends and a
\* later run starts afresh
RunEnds ==
    /\ pc \in {"stored", "raised"}
    /\ batch' = <<>>
    /\ query' = ""
    /\ idx' = 0
    /\ row' = <<>>
    /\ now' = 0
    /\ failedAt' = 0
    /\ pc' = "idle"
    /\ gone' = [l \in Links |-> IF HasRow(table, l) THEN <<>> ELSE gone[l]]
    /\ UNCHANGED <<table, inTxn, work, clock, lastCrm, lastScrape, crmSince,
                   missed, sig, res, restVars>>

\* ------------------------------------------------------------------------
\* The tracking UI (crm.py): one request at a time, each its own connection
\* and transaction. A request that meets the pipeline's write lock waits for
\* the commit (the action is enabled again after it) or gives up with
\* "database is locked" and changes nothing.
\* ------------------------------------------------------------------------

\* POST /api/update: CRMHandler._update_lead
UpdateLead(data) ==
    /\ ~inTxn
    /\ clock < MaxClock
    /\ clock' = clock + 1
    /\ table' = ExecCrmUpdate(table, data, clock + 1)
    /\ IF HasRow(table, data.maps_link)
       THEN /\ lastCrm' = [lastCrm EXCEPT ![data.maps_link] =
                             <<[contact_status |-> data.contact_status,
                                last_contacted |-> OrNone(data.last_contacted),
                                notes |-> OrNone(data.notes)]>>]
            /\ crmSince' = crmSince \cup {data.maps_link}
            /\ missed' = missed
       ELSE /\ missed' = missed \cup {data.maps_link}
            /\ UNCHANGED <<lastCrm, crmSince>>
    /\ UNCHANGED <<inTxn, work, pc, batch, query, idx, row, now, failedAt,
                   lastScrape, gone, sig, res, restVars>>

\* POST /api/delete: CRMHandler._delete_leads (an empty list returns at once
\* and changes nothing)
DeleteLeads(maps_links) ==
    /\ ~inTxn
    /\ maps_links # {}
    /\ table' = ExecCrmDelete(table, maps_links)
    /\ lastCrm' = [l \in Links |-> IF l \in maps_links THEN <<>> ELSE lastCrm[l]]
    /\ lastScrape' = [l \in Links |-> IF l \in maps_links THEN <<>> ELSE lastScrape[l]]
    /\ crmSince' = crmSince \ maps_links
    /\ gone' = [l \in Links |->
                  IF l \in maps_links /\ HasRow(table, l)
                  THEN SelectRow(table, l)
                  ELSE gone[l]]
    /\ UNCHANGED <<inTxn, work, pc, batch, query, idx, row, now, clock,
                   failedAt, missed, sig, res, restVars>>

Next ==
    \/ \E b \in Batches, q \in Queries : ScoreLeads(b, q)
    \/ UpsertBegin
    \/ UpsertSelect
    \/ UpsertWrite
    \/ UpsertWriteFails
    \/ UpsertCommit
    \/ RunEnds
    \/ \E d \in UpdateRequests : UpdateLead(d)
    \/ \E m \in DeleteRequests : DeleteLeads(m)

Spec == Init /\ [][Next]_vars

\* ------------------------------------------------------------------------
\* score_lead on its own, over every combination of signals
\* ------------------------------------------------------------------------

ReviewCounts == {NullNum, 0, 3, 9, 10, 11}
PhotoCounts == {NullNum, 2, 4, 5}
Ratings == {NullNum, 10, 35, 39, 40, 45}
Websites == {"", "https://ace.example"}

SignalInputs ==
    {[Stub("x", rt, rc, "", "maps/place/x") EXCEPT
         !.owner_responds = ow, !.photo_count = pc_, !.has_description = de,
         !.has_services = sv, !.newest_review = nr, !.website = ws] :
       rc \in ReviewCounts, ow \in BOOLEAN, pc_ \in PhotoCounts,
       rt \in Ratings, de \in BOOLEAN, sv \in BOOLEAN, nr \in ReviewTexts,
       ws \in Websites}

InitScore ==
    /\ InitStore
    /\ sig \in SignalInputs
    /\ res = <<>>
    /\ RestIdle

\* score, reasons = score_lead(listing)
ScoreOne ==
    /\ res = <<>>
    /\ res' = <<score_lead(sig)>>
    /\ UNCHANGED <<sig, storeVars, restVars>>

NextScore == ScoreOne

SpecScore == InitScore /\ [][NextScore]_vars

\* ------------------------------------------------------------------------
\* C10: the scoring table
\* ------------------------------------------------------------------------

\* the scoring table of the specification, row by row, for a listing l
ScoringTable(l) ==
    <<[trig |-> (IF l.review_count = NullNum THEN 0 ELSE l.review_count) < 10,
       pts |-> 3, reason |-> "<10 reviews"],
      [trig |-> l.owner_responds = FALSE,
       pts |-> 2, reason |-> "no owner responses"],
      [trig |-> (IF l.photo_count = NullNum THEN 0 ELSE l.photo_count) < 5,
       pts |-> 2, reason |-> "<5 photos"],
      [trig |-> l.rating \in {r \in Ratings : r # NullNum /\ r < 40},
       pts |-> 2, reason |-> "rating " \o FmtFloat(l.rating)],
      [trig |-> l.has_description = FALSE,
       pts |-> 1, reason |-> "no description"],
      [trig |-> l.has_services = FALSE,
       pts |-> 1, reason |-> "no services listed"],
      [trig |-> _review_is_stale(l.newest_review),
       pts |-> 2, reason |-> "no recent reviews"],
      [trig |-> l.website = "",
       pts |-> 1, reason |-> "no website"]>>

RECURSIVE TablePoints(_)
TablePoints(t) ==
    IF t = <<>> THEN 0
    ELSE (IF t[1].trig THEN t[1].pts ELSE 0) + TablePoints(Tail(t))

RECURSIVE TableReasons(_)
TableReasons(t) ==
    IF t = <<>> THEN <<>>
    ELSE (IF t[1].trig THEN <<t[1].reason>> ELSE <<>>) \o TableReasons(Tail(t))

\* the scoring example of the specification
ExampleSignals ==
    [Stub("x", 35, 3, "", "maps/place/x") EXCEPT
        !.owner_responds = FALSE, !.photo_count = 2, !.has_description = FALSE,
        !.has_services = FALSE, !.newest_review = TxtYears, !.website = ""]

ExampleReasons ==
    <<"<10 reviews", "no owner responses", "<5 photos", "rating 3.5",
      "no description", "no services listed", "no recent reviews", "no website">>

RatingReasons == {"rating " \o FmtFloat(r) : r \in Ratings}

\* C10: for every combination of signals, score_lead returns the sum of the
\* points of exactly the triggered rows of the scoring table and the reasons
\* of exactly those rows in table order; a null rating adds no rating reason;
\* the all-triggered example scores 14 with all eight reasons.
C10_ScoreIsTableSum ==
    res # <<>> =>
        /\ res[1].score = TablePoints(ScoringTable(sig))
        /\ res[1].reasons = TableReasons(ScoringTable(sig))
        /\ sig.rating = NullNum =>
              \A i \in 1..Len(res[1].reasons) : res[1].reasons[i] \notin RatingReasons
        /\ sig = ExampleSignals =>
              /\ res[1].score = 14
              /\ res[1].reasons = ExampleReasons

\* the example has been scored
C10_Witness ==
    /\ res # <<>>
    /\ sig = ExampleSignals
    /\ Len(res[1].reasons) = 8

\* ------------------------------------------------------------------------
\* C1 - C9: the reconciliation store
\* ------------------------------------------------------------------------

\* the columns the tracking UI owns once a row exists
OwnedCols(r) == <<r.contact_status, r.last_contacted, r.notes, r.scraped_at>>

CrmCols(r) == [contact_status |-> r.contact_status,
               last_contacted |-> r.last_contacted, notes |-> r.notes]

\* every pipeline-owned column of row r holds the value of listing lead
\* (a Python bool is stored as 0 or 1) and the query q
FreshFrom(r, lead, q) ==
    /\ r.name = lead.name
    /\ r.address = lead.address
    /\ r.phone = lead.phone
    /\ r.website = lead.website
    /\ r.rating = lead.rating
    /\ r.review_count = lead.review_count
    /\ r.category = lead.category
    /\ r.photo_url = lead.photo_url
    /\ r.photo_count = lead.photo_count
    /\ (r.has_description = 1) = lead.has_description
    /\ (r.has_services = 1) = lead.has_services
    /\ (r.owner_responds = 1) = lead.owner_responds
    /\ r.newest_review = lead.newest_review
    /\ (r.has_hours = 1) = lead.has_hours
    /\ r.has_description \in {0, 1}
    /\ r.has_services \in {0, 1}
    /\ r.owner_responds \in {0, 1}
    /\ r.has_hours \in {0, 1}
    /\ r.lead_score = lead.lead_score
    /\ r.score_reasons = lead.score_reasons
    /\ r.query = q

RowsFor(rows, link) == {i \in 1..Len(rows) : rows[i].maps_link = link}

\* C1: an upsert that re-scrapes the maps_link of an existing record leaves
\* that record's contact_status, last_contacted, notes and scraped_at as they
\* were immediately before it, whatever the tracking UI wrote before: the
\* UPDATE keeps them in the rows it touches, and the commit keeps them in
\* every row that was there before it.
C1_OwnedColsKept ==
    [][/\ (UpsertWrite /\ row # <<>>) =>
             \A i \in RowsFor(View, batch[idx].maps_link) :
                /\ i <= Len(work')
                /\ work'[i].maps_link = batch[idx].maps_link
                /\ OwnedCols(work'[i]) = OwnedCols(View[i])
       /\ UpsertCommit =>
             \A l \in Links :
                HasRow(table, l) =>
                   /\ HasRow(table', l)
                   /\ OwnedCols(RowOf(table', l)) = OwnedCols(RowOf(table, l))
      ]_vars

\* a record the tracking UI has edited was re-scraped and committed
C1_Witness ==
    /\ pc = "stored"
    /\ \E l \in BatchLinks(batch) :
          /\ HasRow(table, l)
          /\ row # <<>>
          /\ lastCrm[l] # <<>>
          /\ RowOf(table, l).contact_status = "contacted"
          /\ RowOf(table, l).updated_at = now
          /\ RowOf(table, l).scraped_at < now

\* C2: when upsert_leads finds a record for a listing's maps_link, every
\* pipeline-owned column of it afterwards equals the value in the new
\* listing, also when that value is empty or null; and what the run commits
\* for a link is the last listing of the batch with that link.
C2_FreshColsOverwritten ==
    [][/\ (UpsertWrite /\ row # <<>>) =>
             \A i \in RowsFor(work', batch[idx].maps_link) :
                FreshFrom(work'[i], batch[idx], query)
       /\ UpsertCommit =>
             \A l \in BatchLinks(batch) :
                HasRow(table', l) =>
                   FreshFrom(RowOf(table', l), LastFor(batch, l), query)
      ]_vars

\* a record with a website, a rating and a review text has been overwritten
\* by a listing in which they are empty or null
C2_Witness ==
    /\ pc = "commit"
    /\ row # <<>>
    /\ \E l \in BatchLinks(batch) :
          /\ HasRow(table, l) /\ HasRow(work, l)
          /\ RowOf(table, l).website # "" /\ RowOf(work, l).website = ""
          /\ RowOf(table, l).rating # NullNum /\ RowOf(work, l).rating = NullNum
          /\ RowOf(table, l).newest_review # <<>>
          /\ RowOf(work, l).newest_review = <<>>

\* C3: when upsert_leads finds no record for a listing's maps_link, it adds
\* exactly one row, with contact_status 'new', last_contacted and notes
\* null, the listing's scraped and score values, and scraped_at and
\* updated_at both the timestamp the call took; the other rows stay.
C3_InsertDefaults ==
    [][(UpsertWrite /\ row = <<>>) =>
          /\ Len(work') = Len(View) + 1
          /\ SubSeq(work', 1, Len(View)) = View
          /\ LET r == work'[Len(work')]
             IN  /\ r.maps_link = batch[idx].maps_link
                 /\ r.contact_status = "new"
                 /\ r.last_contacted = NullText
                 /\ r.notes = NullText
                 /\ FreshFrom(r, batch[idx], query)
                 /\ r.scraped_at = now
                 /\ r.updated_at = now
                 /\ now \in 1..clock
      ]_vars

\* a listing with an unknown link has been inserted beside an older record
C3_Witness ==
    /\ pc = "commit"
    /\ row = <<>>
    /\ table # <<>>
    /\ Len(work) = Len(table) + 1
    /\ work[Len(work)].maps_link = batch[idx].maps_link

\* C4: upserting the same scraped listing twice in a row with no tracking-UI
\* edit in between: the second upsert leaves contact_status, last_contacted,
\* notes and scraped_at unchanged and advances updated_at, and when that
\* holds of every listing of the batch the number of records is unchanged.
SameAsLast(i) ==
    LET l == batch[i].maps_link
    IN  /\ lastScrape[l] # <<>>
        /\ lastScrape[l][1].lead = batch[i]
        /\ l \notin crmSince
        /\ HasRow(table, l)

C4_SecondUpsert ==
    [][UpsertCommit =>
          /\ \A i \in 1..Len(batch) :
                SameAsLast(i) =>
                   LET l == batch[i].maps_link
                   IN  /\ HasRow(table', l)
                       /\ OwnedCols(RowOf(table', l)) = OwnedCols(RowOf(table, l))
                       /\ RowOf(table', l).updated_at > RowOf(table, l).updated_at
          /\ (\A i \in 1..Len(batch) : SameAsLast(i)) => Len(table') = Len(table)
      ]_vars

\* the second upsert of a listing is about to commit
C4_Witness ==
    /\ pc = "commit"
    /\ \A i \in 1..Len(batch) : SameAsLast(i)
    /\ \E i \in 1..Len(batch) :
          /\ HasRow(work, batch[i].maps_link)
          /\ RowOf(work, batch[i].maps_link).updated_at
                > RowOf(table, batch[i].maps_link).updated_at

\* C5: the store holds at most one record per maps_link, in what is
\* committed and in what the pipeline's transaction has written.
OnePerLink(rows) ==
    \A i, j \in 1..Len(rows) : rows[i].maps_link = rows[j].maps_link => i = j

C5_OneRecordPerLink == OnePerLink(table) /\ OnePerLink(work)

\* a batch with two names for one link has been committed as one record
C5_Witness ==
    /\ pc = "stored"
    /\ Len(batch) = 2
    /\ batch[1].maps_link = batch[2].maps_link
    /\ batch[1].name # batch[2].name
    /\ Cardinality(RowsFor(table, batch[1].maps_link)) = 1
    /\ RowOf(table, batch[1].maps_link).name = batch[2].name

\* C6: however a pipeline upsert of a maps_link and tracking-UI updates of
\* the same maps_link interleave, the record carries the contact_status,
\* last_contacted and notes of the last update that found it and the
\* scraped, quality, score and query values of the last upsert committed
\* for it.
C6_NeitherWriteLost ==
    \A l \in Links :
        HasRow(table, l) =>
           /\ lastCrm[l] # <<>> => CrmCols(RowOf(table, l)) = lastCrm[l][1]
           /\ lastScrape[l] # <<>> =>
                 FreshFrom(RowOf(table, l), lastScrape[l][1].lead,
                           lastScrape[l][1].query)

\* an update reached the record between the upsert's SELECT and its UPDATE,
\* and the upsert has committed
C6_Witness ==
    /\ pc = "stored"
    /\ Len(batch) = 1
    /\ row # <<>>
    /\ row[1].contact_status = "new"
    /\ HasRow(table, batch[1].maps_link)
    /\ RowOf(table, batch[1].maps_link).contact_status = "contacted"
    /\ RowOf(table, batch[1].maps_link).updated_at = now
    /\ RowOf(table, batch[1].maps_link).name = batch[1].name

\* C7 (as claimed): each listing's upsert is its own transaction, committed
\* before the lookup of the next listing begins.
C7_CommitPerListing == (pc = "select" /\ idx > 1) => ~inTxn

\* C8 (as claimed): when the store write of the k-th listing fails, the
\* listings before the k-th stay upserted in the store.
C8_PartialApplication ==
    pc = "raised" =>
        \A i \in 1..(failedAt - 1) :
            /\ HasRow(table, batch[i].maps_link)
            /\ RowOf(table, batch[i].maps_link).updated_at = now

\* C9: a record comes into existence only by the commit of an upsert of its
\* maps_link and disappears only by a delete request naming its maps_link;
\* an update request creates no record.
Stored(rows) == {rows[i].maps_link : i \in 1..Len(rows)}

C9_Lifecycle ==
    [][/\ \A l \in Stored(table') \ Stored(table) :
             UpsertCommit /\ l \in BatchLinks(batch)
       /\ \A l \in Stored(table) \ Stored(table') :
             \E m \in DeleteRequests : DeleteLeads(m) /\ l \in m
       /\ Len(table') > Len(table) => UpsertCommit
       /\ Len(table') < Len(table) => \E m \in DeleteRequests : DeleteLeads(m)
       /\ (\E d \in UpdateRequests : UpdateLead(d)) =>
             /\ Len(table') = Len(table)
             /\ Stored(table') = Stored(table)
      ]_vars

\* an update request named a link that had no record while another link had
\* one, and no record for it has appeared
C9_Witness ==
    /\ table # <<>>
    /\ \E l \in missed : ~HasRow(table, l)

\* ------------------------------------------------------------------------
\* _review_is_stale on its own, over age texts of one or two clauses
\* ------------------------------------------------------------------------

StaleNumbers ==
    {<<"0">>, <<"3">>, <<"5">>, <<"6">>, <<"8">>, <<"1", "0">>, <<"1", "5">>}

StaleGaps == {<<>>, <<" ">>, <<" ", " ">>}

StaleUnits ==
    {<<"m", "o", "n", "t", "h">>, <<"m", "o", "n", "t", "h", "s">>,
     <<"M", "o", "n", "t", "h", "s">>, <<"y", "e", "a", "r", "s">>,
     <<"Y", "e", "a", "r">>, <<"d", "a", "y", "s">>, <<"w", "e", "e", "k", "s">>}

StaleTails ==
    {<<>>, <<" ", "a", "g", "o">>,
     <<",", " ", "8", " ", "m", "o", "n", "t", "h", "s">>,
     <<",", " ", "2", " ", "m", "o", "n", "t", "h", "s">>}

\* the element text or the "N unit ago" match _extract_quality_signals stores
StaleTexts ==
    ReviewTexts \cup
    {n \o g \o u \o t :
        n \in StaleNumbers, g \in StaleGaps, u \in StaleUnits, t \in StaleTails}

InitStale ==
    /\ InitStore
    /\ ScoreIdle
    /\ ApartIdle
    /\ newest \in StaleTexts
    /\ stale = <<>>
    /\ MainIdle
    /\ CollectorIdle

\* _review_is_stale(newest) as score_lead calls it
StaleOne ==
    /\ stale = <<>>
    /\ stale' = <<_review_is_stale(newest)>>
    /\ UNCHANGED <<newest, apartVars, storeVars, scoreVars, mainVars,
                   max_listings, extractVars, scrollVars>>

NextStale == StaleOne

SpecStale == InitStale /\ [][NextStale]_vars

\* ------------------------------------------------------------------------
\* C11: the staleness rule
\* ------------------------------------------------------------------------

\* the integers followed by "month" in a lower-cased text: for each whole
\* digit run that optional spaces and "month" follow, its start
MonthNumbers(text) ==
    {i \in MonthMatchStarts(text) : i = 1 \/ text[i - 1] \notin Digits}

NumberAt(text, i) == ParseInt(text, i, RunEnd(text, Digits, i))

\* C11 as stated: _review_is_stale returns true exactly when the text is
\* empty, or contains "year", or contains "N month" with an integer N >= 6,
\* and false otherwise (letter case set aside).
C11_StaleExactly ==
    stale # <<>> =>
        LET text == Lower(newest)
        IN  stale[1] =
              \/ newest = <<>>
              \/ Contains(text, YearPat)
              \/ \E i \in MonthNumbers(text) : NumberAt(text, i) >= 6

\* C11 amended: _review_is_stale returns true exactly when the text is empty,
\* or contains "year" in any letter case, or the first "N month" in it has
\* N >= 6; "", "a year ago" and "8 months ago" are stale, "3 months ago" and
\* "2 days ago" are not.
C11_StaleByFirstMonth ==
    stale # <<>> =>
        LET text == Lower(newest)
        IN  /\ stale[1] =
                 \/ newest = <<>>
                 \/ Contains(text, YearPat)
                 \/ \E i \in MonthNumbers(text) :
                       /\ NumberAt(text, i) >= 6
                       /\ \A j \in MonthNumbers(text) : i <= j
            /\ newest \in {TxtNone, TxtYear, TxtMonths8} => stale[1]
            /\ newest \in {TxtMonths3, TxtDays} => ~stale[1]

\* a text whose first "N month" is under six and whose second is not has
\* been judged, and judged not stale
C11_Witness ==
    /\ stale = <<FALSE>>
    /\ LET text == Lower(newest)
       IN  \E i, j \in MonthNumbers(text) :
              /\ i < j
              /\ NumberAt(text, i) < 6
              /\ NumberAt(text, j) >= 6

\* ------------------------------------------------------------------------
\* One run of main, from its first line to the exit of the process
\* ------------------------------------------------------------------------

\* the stub the collector makes of a listing's search card
StubOf(l) == Stub(l.name, l.rating, l.review_count, l.category, l.maps_link)

\* what extract_listings_from_search can return besides the empty list
StubBatches == {[k \in 1..Len(b) |-> StubOf(b[k])] : b \in Batches}

\* what the detail page behind a link shows
PageOf(maps_link) == IF maps_link = FullAce.maps_link THEN FullAce ELSE Roofer

\* A mutant of scrape_listing_detail: the wait's timeout is swallowed and the
\* extraction goes on.
scrape_listing_detail_NoReturn(listing, page, loaded) ==
    [listing EXCEPT
        !.phone = page.phone, !.website = page.website,
        !.address = page.address,
        !.photo_url = IF page.photo_url # "" THEN page.photo_url ELSE @,
        !.photo_count = page.photo_count,
        !.has_description = page.has_description,
        !.has_services = page.has_services,
        !.owner_responds = page.owner_responds,
        !.newest_review = page.newest_review, !.has_hours = page.has_hours]

\* scrape_listing_detail(driver, listing): the listing as the call leaves it,
\* `loaded` false when the wait for the detail panel timed out
scrape_listing_detail(listing, page, loaded) ==
    IF ~loaded THEN listing
    ELSE [listing EXCEPT
            !.phone = page.phone, !.website = page.website,
            !.address = page.address,
            !.photo_url = IF page.photo_url # "" THEN page.photo_url ELSE @,
            !.photo_count = page.photo_count,
            !.has_description = page.has_description,
            !.has_services = page.has_services,
            !.owner_responds = page.owner_responds,
            !.newest_review = page.newest_review, !.has_hours = page.has_hours]

\* the call raises after `done` of its assignments (none: driver.get raised;
\* one: the phone is set and an element went stale under the next read)
RaisedDetail(listing, page, done) ==
    IF done = 0 THEN listing ELSE [listing EXCEPT !.phone = page.phone]

\* A mutant of the output filter: `>` for `>=`.
OutputListings_Above(listings, all, min) ==
    IF all THEN listings
    ELSE SelectSeq(listings, LAMBDA l : l.lead_score > min)

\* main: output_listings
OutputListings(listings, all, min) ==
    IF all THEN listings
    ELSE SelectSeq(listings, LAMBDA l : l.lead_score >= min)

col_order ==
    <<"lead_score", "score_reasons", "name", "address", "phone", "website",
      "rating", "review_count", "category", "photo_count", "has_description",
      "has_services", "owner_responds", "newest_review", "has_hours",
      "maps_link", "photo_url">>

\* the JSON file holds the dicts in list order; the sheet holds one row per
\* dict, its cells in col_order
OutputFiles(listings) ==
    [json |-> listings,
     xlsx |-> [k \in 1..Len(listings) |->
                 [c \in 1..Len(col_order) |-> listings[k][col_order[c]]]]]

\* A mutant of save_outputs: an empty list writes no file.
save_outputs_SkipEmpty(listings) ==
    IF listings = <<>> THEN <<>> ELSE <<OutputFiles(listings)>>

\* save_outputs(listings, query, output_dir): the files written
save_outputs(listings) == <<OutputFiles(listings)>>

\* --min-score: the default, and a threshold only the worst listing reaches
MinScores == {5, 12}

\* the store as an earlier run may have left it
StartTables == {<<>>, <<InsertRow(Scored(FullAce), "plumbers nj", 1)>>}

InitMain ==
    /\ table \in StartTables
    /\ table0 = table
    /\ clock = Len(table)
    /\ lastScrape =
         [l \in Links |->
            IF HasRow(table, l)
            THEN <<[lead |-> Scored(FullAce), query |-> "plumbers nj"]>>
            ELSE <<>>]
    /\ inTxn = FALSE
    /\ work = <<>>
    /\ pc = "idle"
    /\ batch = <<>>
    /\ query = ""
    /\ idx = 0
    /\ row = <<>>
    /\ now = 0
    /\ failedAt = 0
    /\ lastCrm = [l \in Links |-> <<>>]
    /\ crmSince = {}
    /\ missed = {}
    /\ gone = [l \in Links |-> <<>>]
    /\ ScoreIdle
    /\ ApartIdle
    /\ StaleIdle
    /\ min_score = 5
    /\ show_all = FALSE
    /\ driver = "none"
    /\ screenshot = FALSE
    /\ collected = <<>>
    /\ pos = 0
    /\ detail = [n \in Names |-> "none"]
    /\ output = <<>>
    /\ exit_code = NullNum
    /\ CollectorIdle

upsertVars == <<idx, row, now, failedAt>>

collectorVars == <<max_listings, extractVars, scrollVars>>

historyVars == <<lastCrm, lastScrape, crmSince, missed, gone>>

\* main up to driver.get(search_url): the arguments are parsed and the
\* browser is started
MainStart(q, min, all) ==
    /\ pc = "idle"
    /\ query' = q
    /\ min_score' = min
    /\ show_all' = all
    /\ driver' = "open"
    /\ pc' = "search"
    /\ UNCHANGED <<table, inTxn, work, batch, clock, upsertVars, historyVars,
                   scoreVars, staleVars, apartVars, collectorVars, screenshot,
                   collected, pos, detail, output, exit_code, table0>>

\* A mutant of the timeout branch: the screenshot is taken and the run goes
\* on as if results had loaded.
SearchTimeout_NoExit ==
    /\ pc = "search"
    /\ ~screenshot
    /\ screenshot' = TRUE
    /\ UNCHANGED <<storeVars, scoreVars, staleVars, apartVars, collectorVars,
                   min_score, show_all, driver, collected, pos, detail, output,
                   exit_code, table0>>

\* the wait for a result anchor times out: screenshot, sys.exit(1)
SearchTimeout ==
    /\ pc = "search"
    /\ screenshot' = TRUE
    /\ exit_code' = 1
    /\ pc' = "finally"
    /\ UNCHANGED <<table, inTxn, work, batch, query, clock, upsertVars,
                   historyVars, scoreVars, staleVars, apartVars, collectorVars,
                   min_score, show_all, driver, collected, pos, detail, output,
                   table0>>

\* an anchor is present; scroll_results_panel and
\* extract_listings_from_search run and the collector returns `stubs`; an
\* empty list ends the run with sys.exit(1)
Collect(stubs) ==
    /\ pc = "search"
    /\ batch' = stubs
    /\ collected' = stubs
    /\ IF stubs = <<>>
       THEN /\ exit_code' = 1
            /\ pc' = "finally"
            /\ pos' = pos
       ELSE /\ exit_code' = exit_code
            /\ pc' = "enrich"
            /\ pos' = 1
    /\ UNCHANGED <<table, inTxn, work, query, clock, upsertVars, historyVars,
                   scoreVars, staleVars, apartVars, collectorVars, min_score,
                   show_all, driver, screenshot, detail, output, table0>>

\* A mutant of phase 2: the loop is left after its first pass.
Enrich_LeavesEarly(how, done) ==
    /\ pc = "enrich"
    /\ LET listing == batch[pos]
           page == PageOf(listing.maps_link)
       IN  /\ batch' = [batch EXCEPT ![pos] =
                          IF how = "raised" THEN RaisedDetail(listing, page, done)
                          ELSE scrape_listing_detail(listing, page, how = "ok")]
           /\ detail' = [detail EXCEPT ![listing.name] = how]
    /\ pos' = pos
    /\ pc' = "phase3"
    /\ UNCHANGED <<table, inTxn, work, query, clock, upsertVars, historyVars,
                   scoreVars, staleVars, apartVars, collectorVars, min_score,
                   show_all, driver, screenshot, collected, output, exit_code,
                   table0>>

\* phase 2, one pass of the loop: scrape_listing_detail(driver, listing)
\* returns (how == "ok": the panel loaded; "timeout": it did not) or raises
\* (how == "raised", after `done` assignments) and main logs the failure;
\* either way the loop goes on
Enrich(how, done) ==
    /\ pc = "enrich"
    /\ LET listing == batch[pos]
           page == PageOf(listing.maps_link)
       IN  /\ batch' = [batch EXCEPT ![pos] =
                          IF how = "raised" THEN RaisedDetail(listing, page, done)
                          ELSE scrape_listing_detail(listing, page, how = "ok")]
           /\ detail' = [detail EXCEPT ![listing.name] = how]
    /\ IF pos < Len(batch)
       THEN /\ pos' = pos + 1
            /\ pc' = "enrich"
       ELSE /\ pos' = pos
            /\ pc' = "phase3"
    /\ UNCHANGED <<table, inTxn, work, query, clock, upsertVars, historyVars,
                   scoreVars, staleVars, apartVars, collectorVars, min_score,
                   show_all, driver, screenshot, collected, output, exit_code,
                   table0>>

\* phase 3: score every listing, sort by score
ScorePhase ==
    /\ pc = "phase3"
    /\ batch' = ScoreAll(batch)
    /\ pc' = "scored"
    /\ UNCHANGED <<table, inTxn, work, query, clock, upsertVars, historyVars,
                   scoreVars, staleVars, apartVars, collectorVars, mainVars>>

\* upsert_leads returned: filter, save_outputs, summary; main returns
SaveOutputs ==
    /\ pc = "stored"
    /\ output' = save_outputs(OutputListings(batch, show_all, min_score))
    /\ exit_code' = 0
    /\ pc' = "finally"
    /\ UNCHANGED <<table, inTxn, work, batch, query, clock, upsertVars,
                   historyVars, scoreVars, staleVars, apartVars, collectorVars,
                   min_score, show_all, driver, screenshot, collected, pos,
                   detail, table0>>

\* A mutant of main: the error of upsert_leads is caught and logged like a
\* failure of phase 2, and main goes on to the output.
StoreErrorLeavesMain_Caught ==
    /\ pc = "raised"
    /\ pc' = "stored"
    /\ UNCHANGED <<table, inTxn, work, batch, query, clock, upsertVars,
                   historyVars, scoreVars, staleVars, apartVars, collectorVars,
                   mainVars>>

\* A mutant of main: no finally clause, the error of upsert_leads ends the
\* process at once.
StoreErrorLeavesMain_NoFinally ==
    /\ pc = "raised"
    /\ exit_code' = 1
    /\ pc' = "exited"
    /\ UNCHANGED <<table, inTxn, work, batch, query, clock, upsertVars,
                   historyVars, scoreVars, staleVars, apartVars, collectorVars,
                   min_score, show_all, driver, screenshot, collected, pos,
                   detail, output, table0>>

\* upsert_leads raised: nothing in main catches it, the interpreter prints
\* the traceback and the process will end with status 1
StoreErrorLeavesMain ==
    /\ pc = "raised"
    /\ exit_code' = 1
    /\ pc' = "finally"
    /\ UNCHANGED <<table, inTxn, work, batch, query, clock, upsertVars,
                   historyVars, scoreVars, staleVars, apartVars, collectorVars,
                   min_score, show_all, driver, screenshot, collected, pos,
                   detail, output, table0>>

\* finally: driver.quit(); the process ends
DriverQuit ==
    /\ pc = "finally"
    /\ driver' = "quit"
    /\ pc' = "exited"
    /\ UNCHANGED <<table, inTxn, work, batch, query, clock, upsertVars,
                   historyVars, scoreVars, staleVars, apartVars, collectorVars,
                   min_score, show_all, screenshot, collected, pos, detail,
                   output, exit_code, table0>>

DetailEnds == {<<"ok", 0>>, <<"timeout", 0>>, <<"raised", 0>>, <<"raised", 1>>}

NextMain ==
    \/ \E q \in Queries, min \in MinScores, all \in BOOLEAN : MainStart(q, min, all)
    \/ SearchTimeout
    \/ \E stubs \in StubBatches \cup {<<>>} : Collect(stubs)
    \/ \E e \in DetailEnds : Enrich(e[1], e[2])
    \/ ScorePhase
    \/ UpsertBegin
    \/ UpsertSelect
    \/ UpsertWrite
    \/ UpsertWriteFails
    \/ UpsertCommit
    \/ SaveOutputs
    \/ StoreErrorLeavesMain
    \/ DriverQuit

SpecMain == InitMain /\ [][NextMain]_vars

\* the steps of a run after the collector has returned, phase 3 apart
AfterCollect ==
    \/ \E e \in DetailEnds : Enrich(e[1], e[2])
    \/ UpsertBegin
    \/ UpsertSelect
    \/ UpsertWrite
    \/ UpsertWriteFails
    \/ UpsertCommit
    \/ SaveOutputs
    \/ StoreErrorLeavesMain
    \/ DriverQuit

\* Once the collector has returned, every step of a run ends (each wait has a
\* timeout, each statement returns or raises), so a run that can take a step
\* takes one. ScorePhase is enabled exactly when pc = "phase3" and always
\* leaves it; its weak fairness is written with that condition.
SpecMainLive ==
    /\ SpecMain
    /\ WF_vars(AfterCollect)
    /\ []<>(pc # "phase3")

\* ------------------------------------------------------------------------
\* C13: a detail page that times out
\* ------------------------------------------------------------------------

\* the position in listings of the listing with the name
PosOf(listings, name) ==
    CHOOSE k \in 1..Len(listings) : listings[k].name = name

HasName(listings, name) == \E k \in 1..Len(listings) : listings[k].name = name

\* upsert_leads has returned in this run
RunStored ==
    \/ pc = "stored"
    \/ pc \in {"finally", "exited"} /\ exit_code = 0

\* C13: a listing whose detail page timed out is not dropped: it stays in the
\* list with phone, website, address and photo_url empty and its signals at
\* their defaults, it is scored and upserted like the others, and the
\* listings after it are still visited and, when their page loads, enriched.
C13_TimeoutKeepsListing ==
    /\ pc \notin {"idle", "search"} => Len(batch) = Len(collected)
    /\ \A n \in Names : detail[n] = "timeout" =>
          /\ HasName(batch, n)
          /\ LET l == batch[PosOf(batch, n)]
             IN  /\ l.phone = "" /\ l.website = "" /\ l.address = ""
                 /\ l.photo_url = ""
                 /\ l.photo_count = 0 /\ l.newest_review = <<>>
                 /\ ~l.has_description /\ ~l.has_services
                 /\ ~l.owner_responds /\ ~l.has_hours
                 /\ pc \notin {"enrich", "phase3"} =>
                       /\ l.lead_score = score_lead(l).score
                       /\ l.score_reasons = Join(score_lead(l).reasons)
                 /\ RunStored =>
                       /\ HasRow(table, l.maps_link)
                       /\ LastFor(batch, l.maps_link) = l =>
                             /\ RowOf(table, l.maps_link).name = n
                             /\ RowOf(table, l.maps_link).phone = ""
                             /\ RowOf(table, l.maps_link).lead_score = l.lead_score
    /\ pc \notin {"idle", "search", "enrich"} =>
          \A k \in 1..Len(collected) :
             /\ detail[collected[k].name] # "none"
             /\ detail[collected[k].name] = "ok" =>
                   batch[PosOf(batch, collected[k].name)].phone
                      = PageOf(collected[k].maps_link).phone

\* a run has ended with status 0 in which the first listing's page timed out
\* and the second listing's page loaded and gave a phone number; both have a
\* row
C13_Witness ==
    /\ pc = "exited"
    /\ exit_code = 0
    /\ Len(collected) = 2
    /\ detail[collected[1].name] = "timeout"
    /\ detail[collected[2].name] = "ok"
    /\ batch[PosOf(batch, collected[2].name)].phone # ""
    /\ HasRow(table, collected[1].maps_link)
    /\ HasRow(table, collected[2].maps_link)
    /\ collected[1].maps_link # collected[2].maps_link

\* ------------------------------------------------------------------------
\* C14: no search results
\* ------------------------------------------------------------------------

\* C14: when the initial wait for results times out, the screenshot is taken
\* and the process ends with status 1; the store is as it was when the run
\* started and no output file is written.
C14_NoResultsExit ==
    screenshot =>
        /\ pc \in {"finally", "exited"}
        /\ exit_code = 1
        /\ table = table0
        /\ ~inTxn
        /\ work = <<>>
        /\ now = 0
        /\ output = <<>>

\* the process has ended after the screenshot, a store with a row behind it
C14_Witness ==
    /\ pc = "exited"
    /\ screenshot
    /\ exit_code = 1
    /\ driver = "quit"
    /\ table # <<>>

\* ------------------------------------------------------------------------
\* C15: normal completion
\* ------------------------------------------------------------------------

AllUpserted ==
    \A k \in 1..Len(collected) : HasRow(table, collected[k].maps_link)

Elems(seq) == {seq[k] : k \in 1..Len(seq)}

\* C16: the files hold, best score first, exactly the scored listings whose
\* lead_score is at least --min-score, or all of them with --all; the sheet
\* has one row per listing of the JSON file. The filter touches the output
\* only: every collected listing has a row in the store, whatever its score.
C16_OutputFilter ==
    output # <<>> =>
        LET out == output[1].json
            sheet == output[1].xlsx
            wanted == {l \in Elems(batch) : show_all \/ l.lead_score >= min_score}
        IN  /\ Elems(out) = wanted
            /\ Len(out) = Cardinality(wanted)
            /\ \A i, j \in 1..Len(out) :
                  i < j => out[i].lead_score >= out[j].lead_score
            /\ \A k \in 1..Len(out) : out[k].lead_score = score_lead(out[k]).score
            /\ Len(sheet) = Len(out)
            /\ \A k \in 1..Len(out) :
                  /\ sheet[k][1] = out[k].lead_score
                  /\ sheet[k][3] = out[k].name
                  /\ sheet[k][16] = out[k].maps_link
            /\ Elems(batch) = {Scored(l) : l \in Elems([k \in 1..Len(batch) |->
                                  [batch[k] EXCEPT !.lead_score = 0,
                                                   !.score_reasons = ""]])}
            /\ Len(batch) = Len(collected)
            /\ AllUpserted
            /\ \A l \in BatchLinks(batch) :
                  RowOf(table, l).lead_score = LastFor(batch, l).lead_score

\* files are written without --all, a listing under the threshold is left
\* out of them and has its row, another listing is in them
C16_Witness ==
    /\ output # <<>>
    /\ ~show_all
    /\ output[1].json # <<>>
    /\ \E k \in 1..Len(batch) :
          /\ batch[k].lead_score < min_score
          /\ batch[k] \notin Elems(output[1].json)
          /\ HasRow(table, batch[k].maps_link)
          /\ RowOf(table, batch[k].maps_link).name = batch[k].name

\* ------------------------------------------------------------------------
\* C17: what the tracking UI's writes touch
\* ------------------------------------------------------------------------

Columns == DOMAIN InsertRow(FullAce, "", 0)

\* rows and rows2 are the same rows, but for the columns `cols` of the rows
\* with the link
SameBut(rows, rows2, link, cols) ==
    /\ Len(rows2) = Len(rows)
    /\ \A k \in 1..Len(rows) :
          IF rows[k].maps_link = link
          THEN \A c \in Columns \ cols : rows2[k][c] = rows[k][c]
          ELSE rows2[k] = rows[k]

\* rows2 is rows without the rows whose link is in maps_links, the others in
\* their order
RemovedExactly(rows, rows2, maps_links) ==
    LET kept == {k \in 1..Len(rows) : rows[k].maps_link \notin maps_links}
    IN  /\ Len(rows2) = Cardinality(kept)
        /\ \A k \in kept :
              rows2[Cardinality({j \in kept : j <= k})] = rows[k]

\* C17 as stated: an update of the tracking UI changes only contact_status,
\* last_contacted and notes of the one record with the link; every other
\* column of that record and every other record is unchanged. A delete
\* removes exactly the records whose link is in the set.
C17_UpdateTouchesThree ==
    [][/\ \A d \in UpdateRequests :
             UpdateLead(d) =>
                SameBut(table, table', d.maps_link,
                        {"contact_status", "last_contacted", "notes"})
       /\ \A m \in DeleteRequests :
             DeleteLeads(m) => RemovedExactly(table, table', m)]_vars

\* C17 amended: an update of the tracking UI changes only contact_status,
\* last_contacted, notes and updated_at of the one record with the link: the
\* first three take the request's values (an empty text stored as NULL),
\* updated_at the time of the request; every other column of that record and
\* every other record is unchanged. A delete removes exactly the records
\* whose link is in the set.
C17_UpdateTouchesFour ==
    [][/\ \A d \in UpdateRequests :
             UpdateLead(d) =>
                /\ SameBut(table, table', d.maps_link,
                           {"contact_status", "last_contacted", "notes",
                            "updated_at"})
                /\ \A k \in 1..Len(table) :
                      table[k].maps_link = d.maps_link =>
                         /\ table'[k].contact_status = d.contact_status
                         /\ table'[k].last_contacted = OrNone(d.last_contacted)
                         /\ table'[k].notes = OrNone(d.notes)
                         /\ table'[k].updated_at = clock'
                         /\ table'[k].updated_at > table[k].updated_at
       /\ \A m \in DeleteRequests :
             DeleteLeads(m) => RemovedExactly(table, table', m)]_vars

\* two records, the tracking UI's update of one of them the latest write:
\* that one carries the request's status and time, the other is as the
\* pipeline inserted it
C17_Witness ==
    /\ Len(table) = 2
    /\ ~inTxn
    /\ \E l \in crmSince :
          /\ HasRow(table, l)
          /\ lastCrm[l] # <<>>
          /\ RowOf(table, l).contact_status = lastCrm[l][1].contact_status
          /\ RowOf(table, l).contact_status = "contacted"
          /\ RowOf(table, l).updated_at = clock
          /\ RowOf(table, l).scraped_at < clock
          /\ \E l2 \in Links \ {l} :
                /\ HasRow(table, l2)
                /\ RowOf(table, l2).contact_status = "new"
                /\ RowOf(table, l2).updated_at = RowOf(table, l2).scraped_at

\* ------------------------------------------------------------------------
\* C18: the contact status
\* ------------------------------------------------------------------------

ContactStatuses == {"new", "contacted", "replied", "closed", "do_not_contact"}

\* C18 (as claimed): whatever upserts and /api/update requests have run, each
\* record's contact_status is one of new, contacted, replied, closed and
\* do_not_contact.
C18_StatusEnumerated ==
    \A k \in 1..Len(table) : table[k].contact_status \in ContactStatuses

\* ------------------------------------------------------------------------
\* extract_listings_from_search on its own
\* ------------------------------------------------------------------------

PlacePat == <<"/", "m", "a", "p", "s", "/", "p", "l", "a", "c", "e", "/">>

HrefA == PlacePat \o <<"a">>
HrefB == PlacePat \o <<"b">>
HrefC == PlacePat \o <<"c">>
HrefSearch == <<"/", "m", "a", "p", "s", "/", "s", "e", "a", "r", "c", "h">>

\* str.strip(): the text without its leading and trailing white space
Strip(text) ==
    LET inked == {k \in 1..Len(text) : text[k] \notin Spaces}
    IN  IF inked = {} THEN <<>>
        ELSE SubSeq(text, Min(inked), CHOOSE k \in inked : \A j \in inked : j <= k)

\* an anchor: the values its attributes give (None read as ""), the rating
\* found in its parent's text, and where reading it raises: nowhere
\* ("none"), in get_attribute ("attr": the element went stale), or after the
\* name tests, in parent.text or in the parsing of it ("text")
Card(href, aria, rating, fault) ==
    [href |-> href, aria |-> aria, rating |-> rating, fault |-> fault]

CardSet ==
    {Card(HrefA, <<"A">>, 45, "none"),
     Card(HrefB, <<" ", "A", " ">>, 35, "none"),
     Card(HrefB, <<"B">>, NullNum, "none"),
     Card(HrefC, <<"C">>, 40, "none"),
     Card(HrefA, <<"A">>, 45, "text"),
     Card(HrefB, <<"B">>, NullNum, "attr"),
     Card(HrefSearch, <<"B">>, NullNum, "none"),
     Card(<<>>, <<"C">>, NullNum, "none"),
     Card(HrefC, <<" ">>, NullNum, "none")}

\* the most anchors on the page
MaxCards == 3

CardSeqs == UNION {[1..n -> CardSet] : n \in 0..MaxCards}

\* A mutant of the loop: the name is not remembered, so a later anchor with
\* the same name is appended too.
RECURSIVE ExtractLoop_NoSeen(_, _, _, _)
ExtractLoop_NoSeen(cs, max, listings, seen_names) ==
    IF cs = <<>> \/ Len(listings) >= max THEN listings
    ELSE LET card == Head(cs)
             name == Strip(card.aria)
         IN  IF \/ card.fault = "attr"
                \/ card.href = <<>> \/ ~Contains(card.href, PlacePat)
                \/ name = <<>>
                \/ card.fault = "text"
             THEN ExtractLoop_NoSeen(Tail(cs), max, listings, seen_names)
             ELSE ExtractLoop_NoSeen(Tail(cs), max,
                     Append(listings,
                            Stub(name, card.rating, NullNum, "", card.href)),
                     seen_names)

\* the for loop over the rest `cs` of the anchors, with `listings` and
\* `seen_names` as the passes before left them
RECURSIVE ExtractLoop(_, _, _, _)
ExtractLoop(cs, max, listings, seen_names) ==
    IF cs = <<>> \/ Len(listings) >= max THEN listings
    ELSE LET card == Head(cs)
             name == Strip(card.aria)
         IN  IF \/ card.fault = "attr"
                \/ card.href = <<>> \/ ~Contains(card.href, PlacePat)
                \/ name = <<>>
                \/ name \in seen_names
             THEN ExtractLoop(Tail(cs), max, listings, seen_names)
             ELSE IF card.fault = "text"
             THEN ExtractLoop(Tail(cs), max, listings, seen_names \cup {name})
             ELSE ExtractLoop(Tail(cs), max,
                     Append(listings,
                            Stub(name, card.rating, NullNum, "", card.href)),
                     seen_names \cup {name})

extract_listings_from_search(cs, max) == ExtractLoop(cs, max, <<>>, {})

\* --max: the most listings asked for
MaxListings == 3

InitExtract ==
    /\ InitStore
    /\ ScoreIdle
    /\ ApartIdle
    /\ StaleIdle
    /\ MainIdle
    /\ ScrollIdle
    /\ max_listings \in 0..MaxListings
    /\ cards \in CardSeqs
    /\ found = <<>>

\* listings = extract_listings_from_search(driver, max_listings)
ExtractOne ==
    /\ found = <<>>
    /\ found' = <<extract_listings_from_search(cards, max_listings)>>
    /\ UNCHANGED <<cards, max_listings, storeVars, scoreVars, staleVars,
                   apartVars, mainVars, scrollVars>>

NextExtract == ExtractOne

SpecExtract == InitExtract /\ [][NextExtract]_vars

\* ------------------------------------------------------------------------
\* C19: the collector's result
\* ------------------------------------------------------------------------

\* the elements of a set of positions, in ascending order
Ascending(S) ==
    [i \in 1..Cardinality(S) |->
        CHOOSE k \in S : Cardinality({j \in S : j <= k}) = i]

\* the stub of the anchor at position k
StubAt(k) ==
    Stub(Strip(cards[k].aria), cards[k].rating, NullNum, "", cards[k].href)

\* the anchors with a place link and a non-empty name
Named ==
    {k \in 1..Len(cards) :
        /\ Contains(cards[k].href, PlacePat)
        /\ Strip(cards[k].aria) # <<>>}

\* of a set of anchors, the first of each display name
FirstOfName(S) ==
    {k \in S : \A j \in S : j < k => Strip(cards[j].aria) # Strip(cards[k].aria)}

\* the stubs of the first `max` anchors of S, in DOM order
StubsOf(S, max) ==
    LET order == Ascending(S)
    IN  [i \in 1..(IF max < Len(order) THEN max ELSE Len(order)) |->
            StubAt(order[i])]

\* C19 as stated: extract_listings_from_search returns the anchors that have
\* a place link and a non-empty name, the first of each display name, in DOM
\* order, cut to max_listings; no two stubs share a name and the result is
\* never longer than max_listings.
C19_FirstOfEachName ==
    found # <<>> =>
        /\ found[1] = StubsOf(FirstOfName(Named), max_listings)
        /\ \A i, j \in 1..Len(found[1]) :
              i # j => found[1][i].name # found[1][j].name
        /\ Len(found[1]) <= max_listings

\* C19 amended: extract_listings_from_search returns, in DOM order and cut
\* to max_listings, the anchors whose attributes could be read and that have
\* a place link and a non-empty name, the first of each display name, less
\* those whose surrounding text could not be read or parsed (such an anchor
\* still takes its name: no later anchor of that name is returned); no two
\* stubs share a name and the result is never longer than max_listings.
C19_FirstReadableOfEachName ==
    found # <<>> =>
        LET read == {k \in Named : cards[k].fault # "attr"}
            kept == {k \in FirstOfName(read) : cards[k].fault # "text"}
        IN  /\ found[1] = StubsOf(kept, max_listings)
            /\ \A i, j \in 1..Len(found[1]) :
                  i # j => found[1][i].name # found[1][j].name
            /\ Len(found[1]) <= max_listings

\* the collector has returned fewer stubs than asked for, among them none for
\* a name whose first anchor could not be read to the end and whose second
\* anchor was sound
C19_Witness ==
    /\ found # <<>>
    /\ found[1] # <<>>
    /\ Len(found[1]) < max_listings
    /\ \E i, j \in Named :
          /\ i < j
          /\ Strip(cards[i].aria) = Strip(cards[j].aria)
          /\ cards[i].fault = "text"
          /\ cards[j].fault = "none"
          /\ \A k \in 1..Len(found[1]) : found[1][k].name # Strip(cards[j].aria)

\* ------------------------------------------------------------------------
\* scroll_results_panel on its own
\* ------------------------------------------------------------------------

max_stale == 5

\* the most anchors the page shows
MaxCount == 3

\* the history variable `rounds` stops counting one past the most rounds a
\* count that never falls can take
RoundCap == max_stale * MaxListings + 1

InitScroll ==
    /\ InitStore
    /\ ScoreIdle
    /\ ApartIdle
    /\ StaleIdle
    /\ MainIdle
    /\ ExtractIdle
    /\ ScrollIdle
    /\ max_listings \in 1..MaxListings

\* the search for the feed panel: without one the function returns, with one
\* it sets last_count and stale_rounds to 0 and comes to the while test
FindFeed(feed) ==
    /\ scroll = "start"
    /\ scroll' = IF feed THEN "loop" ELSE "done"
    /\ last_count' = 0
    /\ stale_rounds' = 0
    /\ UNCHANGED <<current_count, no_increase, rounds, fell, max_listings,
                   extractVars, storeVars, scoreVars, staleVars, apartVars,
                   mainVars>>

\* a pass that leaves stale_rounds alone when the count has not changed
ScrollRound_NoStale(n) ==
    /\ scroll = "loop"
    /\ stale_rounds < max_stale
    /\ current_count' = n
    /\ no_increase' =
         IF n <= (IF current_count = NullNum THEN 0 ELSE current_count)
         THEN (IF no_increase < 5 THEN no_increase + 1 ELSE no_increase)
         ELSE 0
    /\ rounds' = IF rounds < RoundCap THEN rounds + 1 ELSE rounds
    /\ fell' = (fell \/ (current_count # NullNum /\ n < current_count))
    /\ IF n >= max_listings
       THEN /\ scroll' = "done"
            /\ UNCHANGED <<last_count, stale_rounds>>
       ELSE /\ stale_rounds' = IF n = last_count THEN stale_rounds ELSE 0
            /\ last_count' = n
            /\ scroll' = "loop"
    /\ UNCHANGED <<max_listings, extractVars, storeVars, scoreVars, staleVars,
                   apartVars, mainVars>>

\* one pass of the while loop, the page showing n anchors after the scroll,
\* and the while test that follows it
ScrollRound(n) ==
    /\ scroll = "loop"
    /\ stale_rounds < max_stale
    /\ current_count' = n
    /\ no_increase' =
         IF n <= (IF current_count = NullNum THEN 0 ELSE current_count)
         THEN (IF no_increase < 5 THEN no_increase + 1 ELSE no_increase)
         ELSE 0
    /\ rounds' = IF rounds < RoundCap THEN rounds + 1 ELSE rounds
    /\ fell' = (fell \/ (current_count # NullNum /\ n < current_count))
    /\ IF n >= max_listings
       THEN /\ scroll' = "done"
            /\ UNCHANGED <<last_count, stale_rounds>>
       ELSE /\ stale_rounds' = IF n = last_count THEN stale_rounds + 1 ELSE 0
            /\ last_count' = n
            /\ scroll' = IF stale_rounds' < max_stale THEN "loop" ELSE "done"
    /\ UNCHANGED <<max_listings, extractVars, storeVars, scoreVars, staleVars,
                   apartVars, mainVars>>

NextScroll ==
    \/ \E feed \in BOOLEAN : FindFeed(feed)
    \/ \E n \in 0..MaxCount : ScrollRound(n)

SpecScroll == InitScroll /\ [][NextScroll]_vars

\* ------------------------------------------------------------------------
\* C20: when the scroll loop stops
\* ------------------------------------------------------------------------

\* the count has reached max_listings, or the latest five rounds each showed
\* no increase over the round before (the first round over no anchors)
StopCondition ==
    \/ current_count # NullNum /\ current_count >= max_listings
    \/ no_increase >= 5

\* C20 (as claimed): the scroll loop stops exactly when the visible anchor
\* count has reached max_listings or five consecutive rounds have each shown
\* no increase: it goes into no further round once either holds and does not
\* end before one of them holds.
C20_StopsExactlyWhen ==
    /\ scroll = "loop" => ~StopCondition
    /\ scroll = "done" /\ current_count # NullNum => StopCondition

\* the scroll loop with every enabled step of it eventually taken
SpecScrollLive == SpecScroll /\ WF_vars(NextScroll)

MainLeft == pc \in {"finally", "exited"}

\* C22: a store write that fails in upsert_leads is not caught: the error
\* leaves main before save_outputs, the run writes no JSON and no spreadsheet
\* and ends with a failure status; a failure of one listing's enrichment
\* never halts the run: the loop goes on to the next listing or to scoring,
\* and a run that has collected listings ends without output only through a
\* store failure.
C22_OnlyStoreFaultHalts ==
    /\ [](failedAt # 0 =>
            /\ pc \in {"raised", "finally", "exited"}
            /\ output = <<>>
            /\ (MainLeft => exit_code = 1))
    /\ [][(\E e \in DetailEnds : Enrich(e[1], e[2])) =>
            /\ pc' \in {"enrich", "phase3"}
            /\ exit_code' = NullNum
            /\ Len(batch') = Len(batch)]_vars
    /\ []((MainLeft /\ collected # <<>> /\ failedAt = 0) =>
            /\ exit_code = 0
            /\ output # <<>>)

\* a run in which an enrichment call raised went on to the store, and has
\* ended on a failed store write without output
C22_Witness ==
    /\ pc = "exited"
    /\ \E n \in Names : detail[n] = "raised"
    /\ failedAt # 0
    /\ output = <<>>
    /\ exit_code = 1

\* ------------------------------------------------------------------------
\* C23: the order of the phases
\* ------------------------------------------------------------------------

\* the scrape_listing_detail call for listings[k] has ended
EnrichmentEnded(k) == detail[batch[k].name] # "none"

\* listings[k] carries the score and the reasons score_lead gives for it
IsScored(listing) ==
    LET r == score_lead(listing)
    IN  /\ listing.lead_score = r.score
        /\ listing.score_reasons = Join(r.reasons)

\* C23: the phases are strictly ordered: the detail call for a listing
\* starts only when the calls for all listings before it have ended (by
\* return, timeout or caught failure) and none after it has started; scoring
\* starts only when every listing's call has ended; the upsert starts only
\* when every listing is scored; the output is written only when the upsert
\* has committed a row for every listing.
C23_PhasesInOrder ==
    /\ [][(\E e \in DetailEnds : Enrich(e[1], e[2])) =>
            /\ \A k \in 1..(pos - 1) : EnrichmentEnded(k)
            /\ \A k \in pos..Len(batch) : ~EnrichmentEnded(k)
            /\ detail'[batch[pos].name] # "none"
            /\ ~inTxn /\ table = table0 /\ output = <<>>]_vars
    /\ [][ScorePhase =>
            /\ \A k \in 1..Len(batch) : EnrichmentEnded(k)
            /\ ~inTxn /\ table = table0 /\ output = <<>>]_vars
    /\ [][UpsertBegin =>
            /\ \A k \in 1..Len(batch) : EnrichmentEnded(k) /\ IsScored(batch[k])
            /\ ~inTxn /\ table = table0 /\ output = <<>>]_vars
    /\ [][SaveOutputs =>
            /\ ~inTxn
            /\ work = <<>>
            /\ \A k \in 1..Len(batch) :
                  /\ IsScored(batch[k])
                  /\ HasRow(table, batch[k].maps_link)
                  /\ lastScrape[batch[k].maps_link] =
                        <<[lead |-> LastFor(batch, batch[k].maps_link),
                           query |-> query]>>
            /\ output = <<>>]_vars

\* a run over more than one listing has been through all phases
C23_Witness ==
    /\ output # <<>>
    /\ Len(batch) > 1
    /\ \E k \in 1..Len(batch) : detail[batch[k].name] = "raised"
    /\ \E k \in 1..Len(batch) : detail[batch[k].name] = "ok"

\* ------------------------------------------------------------------------
\* extract_detail_field on its own
\* ------------------------------------------------------------------------

\* Python's text.startswith(pat)
StartsWith(text, pat) == MatchAt(text, pat, 1)

\* Python's text.replace(old, new), old not empty
RECURSIVE Replace(_, _, _)
Replace(text, old, new) ==
    IF text = <<>> THEN <<>>
    ELSE IF MatchAt(text, old, 1)
         THEN new \o Replace(SubSeq(text, Len(old) + 1, Len(text)), old, new)
         ELSE <<text[1]>> \o Replace(Tail(text), old, new)

HttpPat == <<"h", "t", "t", "p">>
GooglePat == <<"g", "o", "o", "g", "l", "e">>
TelPat == <<"t", "e", "l", ":">>
HttpsPrefix == <<"h", "t", "t", "p", "s", ":", "/", "/">>
SchemeEnd == <<":", "/", "/">>

\* the phone call's text_pattern, r'[\(\d][\d\s\-\(\)]{6,}'
PhoneFirst == Digits \cup {"("}
PhoneRest == Digits \cup {" ", "-", "(", ")"}

\* the positions at which the pattern matches: the class run after the first
\* character is taken whole (greedy, and nothing follows it in the pattern)
PhoneMatchStarts(text) ==
    {i \in 1..Len(text) :
        /\ text[i] \in PhoneFirst
        /\ RunEnd(text, PhoneRest, i + 1) - i >= 6}

\* re.search(text_pattern, text): <<>> for None, else <<m.group(0)>>
Search(text_pattern, text) ==
    IF text_pattern = "phone" /\ PhoneMatchStarts(text) # {}
    THEN LET i == Min(PhoneMatchStarts(text))
         IN  <<SubSeq(text, i, RunEnd(text, PhoneRest, i + 1))>>
    ELSE <<>>

\* re.sub(r'^[^:]+:\s*', '', val).strip(): a label up to the first colon is
\* cut off when at least one character stands before that colon
Cleaned(val) ==
    LET colons == {k \in 1..Len(val) : val[k] = ":"}
    IN  IF colons # {} /\ Min(colons) > 1
        THEN Strip(SubSeq(val, RunEnd(val, Spaces, Min(colons) + 1) + 1,
                          Len(val)))
        ELSE Strip(val)

\* el.get_attribute(attr) or ""
Attr(el, attr) ==
    CASE attr = "href" -> el.href
      [] attr = "aria-label" -> el.aria
      [] attr = "data-item-id" -> el.item

HrefSite == <<"h", "t", "t", "p", ":", "/", "/", "a", ".", "c", "o">>
HrefRedirect ==
    <<"h", "t", "t", "p", "s", ":", "/", "/", "g", "o", "o", "g", "l", "e",
      ".", "c", "o", "m", "/", "u", "r", "l">>
HrefTel == <<"t", "e", "l", ":", "5", "5", "5", "-", "0", "1", "0", "1">>
HrefTelBare == <<"t", "e", "l", ":">>
HrefTelExt == <<"t", "e", "l", ":", "e", "x", "t">>
AriaDomain == <<"a", ".", "c", "o">>
AriaPadded == <<" ", "a", ".", "c", "o", " ">>
AriaProvider ==
    <<"m", "a", "p", "s", ".", "g", "o", "o", "g", "l", "e", ".", "c", "o",
      "m">>
AriaLabelled == <<"W", "e", "b", ":", " ", "a", ".", "c", "o">>
AriaPhone ==
    <<"P", "h", "o", "n", "e", ":", " ", "5", "5", "5", "-", "0", "1", "0",
      "1">>
AriaEmptyLabel == <<"P", "h", "o", "n", "e", ":", " ">>
AriaAddress ==
    <<"A", "d", "d", "r", "e", "s", "s", ":", " ", "1", " ", "M", "a", "i",
      "n", " ", "S", "t">>
ItemPhone ==
    <<"p", "h", "o", "n", "e", ":", "t", "e", "l", ":", "5", "5", "5", "0",
      "1", "0", "1">>
TextPhone ==
    <<"C", "a", "l", "l", " ", "5", "5", "5", "-", "0", "1", "0", "1", " ">>
TextPlain == <<" ", "M", "a", "i", "n", " ", "S", "t", " ">>

\* an element a selector finds: what get_attribute gives for the attributes
\* the callers name (None read as ""), and el.text
Element(href, aria, item, text) ==
    [href |-> href, aria |-> aria, item |-> item, text |-> text]

ElementSet ==
    {Element(HrefSite, <<>>, <<>>, <<>>),
     Element(HrefRedirect, AriaDomain, <<>>, <<>>),
     Element(HrefRedirect, AriaProvider, <<>>, <<>>),
     Element(HrefRedirect, AriaLabelled, <<>>, <<>>),
     Element(<<>>, AriaPadded, <<>>, TextPlain),
     Element(<<>>, AriaPhone, ItemPhone, <<>>),
     Element(HrefTel, <<>>, <<>>, <<>>),
     Element(HrefTelBare, <<>>, <<>>, TextPhone),
     Element(HrefTelExt, AriaEmptyLabel, <<>>, <<>>),
     Element(<<>>, AriaAddress, <<>>, TextPhone),
     Element(<<>>, AriaEmptyLabel, <<>>, TextPlain),
     Element(<<>>, <<>>, <<>>, <<>>)}

\* the most selectors one call is given
MaxSelectors == 2

\* per selector, <<>> when find_element raises NoSuchElementException and
\* <<el>> when it returns el
FoundSeqs ==
    UNION {[1..n -> {<<>>} \cup {<<el>> : el \in ElementSet}] :
           n \in 1..MaxSelectors}

\* the keyword arguments of a call: the three calls of scrape_listing_detail
\* and calls without attributes or without a pattern
ParamSet ==
    {[attr_patterns |-> <<"href">>, text_pattern |-> "", href_filter |-> TRUE]}
    \cup
    [attr_patterns : {<<>>, <<"aria-label">>, <<"href">>,
                      <<"aria-label", "href", "data-item-id">>},
     text_pattern : {"", "phone"},
     href_filter : {FALSE}]

\* the href_filter branch for one element: <<url>> when it returns, <<>>
\* when it goes on to the next selector
HrefFilter(el) ==
    LET href == el.href
        aria == el.aria
    IN  IF href # <<>> /\ StartsWith(href, HttpPat) /\ ~Contains(href, GooglePat)
        THEN <<href>>
        ELSE IF /\ aria # <<>>
                /\ Contains(aria, <<".">>)
                /\ ~Contains(Strip(aria), <<" ">>)
             THEN LET url == Strip(aria)
                  IN  <<IF StartsWith(url, HttpPat) THEN url
                        ELSE HttpsPrefix \o url>>
             ELSE <<>>

\* the loop over attr_patterns for one element: <<value>> when it returns,
\* <<>> when it falls through to the element's text
RECURSIVE AttrLoop(_, _, _)
AttrLoop(el, attrs, text_pattern) ==
    IF attrs = <<>> THEN <<>>
    ELSE LET attr == Head(attrs)
             val == Attr(el, attr)
             next == AttrLoop(el, Tail(attrs), text_pattern)
         IN  IF val = <<>> THEN next
             ELSE IF attr = "href" /\ StartsWith(val, TelPat)
                  THEN <<Strip(Replace(val, TelPat, <<>>))>>
                  ELSE IF text_pattern # ""
                       THEN LET m == Search(text_pattern, val)
                            IN  IF m # <<>> THEN <<Strip(m[1])>> ELSE next
                       ELSE IF Cleaned(val) # <<>> THEN <<Cleaned(val)>>
                            ELSE next

\* the fall-back to el.text: <<value>> when it returns, <<>> when the loop
\* goes on to the next selector
TextFallback(el, text_pattern) ==
    LET text == Strip(el.text)
    IN  IF text = <<>> THEN <<>>
        ELSE IF text_pattern # ""
             THEN LET m == Search(text_pattern, text)
                  IN  IF m # <<>> THEN <<Strip(m[1])>> ELSE <<>>
             ELSE <<text>>

\* the body of the loop for one element that was found
FromElement(el, attr_patterns, text_pattern, href_filter) ==
    IF href_filter THEN HrefFilter(el)
    ELSE LET a == AttrLoop(el, attr_patterns, text_pattern)
         IN  IF a # <<>> THEN a ELSE TextFallback(el, text_pattern)

\* extract_detail_field(driver, selectors, attr_patterns, text_pattern,
\* href_filter), `selectors` given by what find_element does for each
RECURSIVE extract_detail_field(_, _, _, _)
extract_detail_field(selectors, attr_patterns, text_pattern, href_filter) ==
    IF selectors = <<>> THEN <<>>
    ELSE LET rest == extract_detail_field(Tail(selectors), attr_patterns,
                                          text_pattern, href_filter)
         IN  IF Head(selectors) = <<>> THEN rest
             ELSE LET r == FromElement(Head(selectors)[1], attr_patterns,
                                       text_pattern, href_filter)
                  IN  IF r # <<>> THEN r[1] ELSE rest

InitDetail ==
    /\ InitStore
    /\ ScoreIdle
    /\ StaleIdle
    /\ MainIdle
    /\ CollectorIdle
    /\ SignalIdle
    /\ PendingIdle
    /\ elements \in FoundSeqs
    /\ params \in ParamSet
    /\ field = <<>>

DetailOne ==
    /\ field = <<>>
    /\ field' = <<extract_detail_field(elements, params.attr_patterns,
                                       params.text_pattern,
                                       params.href_filter)>>
    /\ UNCHANGED <<elements, params, storeVars, scoreVars, staleVars, mainVars,
                   collectorVars, signalVars, pendingVars>>

NextDetail == DetailOne

SpecDetail == InitDetail /\ [][NextDetail]_vars

\* ------------------------------------------------------------------------
\* C24: the href filter
\* ------------------------------------------------------------------------

\* the host of an absolute link: what stands between "://" and the next "/"
Host(url) ==
    LET at == {i \in 1..Len(url) : MatchAt(url, SchemeEnd, i)}
    IN  IF at = {} THEN <<>>
        ELSE LET from == Min(at) + Len(SchemeEnd)
                 slashes == {k \in from..Len(url) : url[k] = "/"}
             IN  SubSeq(url, from,
                        IF slashes = {} THEN Len(url) ELSE Min(slashes) - 1)

IsAbsolute(url) ==
    \/ StartsWith(url, HttpPat \o SchemeEnd)
    \/ StartsWith(url, HttpsPrefix)

\* C24: in href-filter mode extract_detail_field returns the empty string or
\* an absolute link that starts with "http" and whose host is not of the map
\* provider's domain, whatever href and aria-label the elements carry, a
\* bare domain in the aria-label that gets the https:// prefix included.
C24_HrefFilterResult ==
    (field # <<>> /\ params.href_filter) =>
        \/ field[1] = <<>>
        \/ /\ IsAbsolute(field[1])
           /\ ~Contains(Host(field[1]), GooglePat)

\* ------------------------------------------------------------------------
\* C25: the first value in selector order
\* ------------------------------------------------------------------------

\* where a value is read from: the named attributes in their order, then
\* the element's text
Sources(attr_patterns) == attr_patterns \o <<"text">>

Raw(el, src) == IF src = "text" THEN Strip(el.text) ELSE Attr(el, src)

\* the element has a non-empty value that matches the pattern, when one is
\* given: none is given, and an attribute without its label or the text is
\* not empty; or one is given and it is found in an attribute or the text
Yields(el, attr_patterns, text_pattern) ==
    \E k \in 1..Len(Sources(attr_patterns)) :
        LET src == Sources(attr_patterns)[k]
            raw == Raw(el, src)
        IN  IF text_pattern # "" THEN Search(text_pattern, raw) # <<>>
            ELSE IF src = "text" THEN raw # <<>> ELSE Cleaned(raw) # <<>>

\* C25: outside href-filter mode extract_detail_field returns a value of the
\* first selector, in the given order, whose element has a non-empty value
\* that matches the fallback pattern (when one is given); what it returns
\* matches the pattern; it returns the empty string only when no selector
\* has such a value. (A selector without an element is passed over.)
C25_FirstMatchingValue ==
    (field # <<>> /\ ~params.href_filter) =>
        LET v == field[1]
            attrs == params.attr_patterns
            hits == {k \in 1..Len(elements) :
                        /\ elements[k] # <<>>
                        /\ Yields(elements[k][1], attrs, params.text_pattern)}
        IN  /\ v = <<>> => hits = {}
            /\ v # <<>> =>
                  /\ hits # {}
                  /\ params.text_pattern # "" =>
                        Search(params.text_pattern, v) # <<>>
                  /\ \E k \in 1..Len(Sources(attrs)) :
                        Contains(Raw(elements[Min(hits)][1],
                                     Sources(attrs)[k]), v)

\* ------------------------------------------------------------------------
\* _extract_quality_signals on its own
\* ------------------------------------------------------------------------

\* what one lookup on the page does: it returns val (ok) or raises
Probe(ok, val) == [ok |-> ok, val |-> val]

PhotoPat == <<"p", "h", "o", "t", "o">>
AriaSeePhotos == <<"S", "e", "e", " ", "p", "h", "o", "t", "o", "s">>
AriaPhotos12 == <<"1", "2", " ", "P", "h", "o", "t", "o", "s">>
AriaPhotos1234 ==
    <<"1", ",", "2", "3", "4", " ", "p", "h", "o", "t", "o", "s">>
AriaPhotos0 == <<"0", " ", "p", "h", "o", "t", "o", "s">>

PhotoDigits == Digits \cup {","}

\* the end of group 1 of r'(\d[\d,]*)\s*photo' for a match that starts at i
PhotoGroupEnd(text, i) == RunEnd(text, PhotoDigits, i + 1)

\* re.search(r'(\d[\d,]*)\s*photo', aria, re.IGNORECASE): the positions at
\* which the pattern matches
PhotoMatchStarts(aria) ==
    {i \in 1..Len(aria) :
        /\ aria[i] \in Digits
        /\ MatchAt(Lower(aria), PhotoPat,
                   RunEnd(aria, Spaces, PhotoGroupEnd(aria, i) + 1) + 1)}

\* int(m.group(1).replace(",", "")) of the leftmost match
PhotoMatchValue(aria) ==
    LET i == Min(PhotoMatchStarts(aria))
        digits == SelectSeq(SubSeq(aria, i, PhotoGroupEnd(aria, i)),
                            LAMBDA c : c # ",")
    IN  ParseInt(digits, 1, Len(digits))

\* what the searches of page_text find: the "About ... From the business"
\* pattern, "Services" with a currency figure, the first "N unit ago" (<<>>
\* when there is none), a word of the opening hours
PageText(about, services, ago, hours) ==
    [about |-> about, services |-> services, ago |-> ago, hours |-> hours]

\* page_text = ""
NoText == PageText(FALSE, FALSE, <<>>, FALSE)

\* the try block that reads page_text
page_text(page) == IF page.main.ok THEN page.main.val ELSE NoText

\* the loop over photo_btns: the count of the first label that has one (0
\* when none has), or an exception from get_attribute before that
RECURSIVE PhotoButtons(_)
PhotoButtons(btns) ==
    IF btns = <<>> THEN [raised |-> FALSE, value |-> 0]
    ELSE IF ~Head(btns).ok THEN [raised |-> TRUE, value |-> 0]
         ELSE IF PhotoMatchStarts(Head(btns).val) # {}
              THEN [raised |-> FALSE, value |-> PhotoMatchValue(Head(btns).val)]
              ELSE PhotoButtons(Tail(btns))

\* each block below: listing[key] as the block leaves it, and whether it
\* was left through its except clause
PhotoBlock(page) ==
    IF ~page.photo_btns.ok THEN [raised |-> TRUE, value |-> 0]
    ELSE LET b == PhotoButtons(page.photo_btns.val)
         IN  IF b.raised \/ b.value # 0 THEN b
             ELSE IF ~page.thumbs.ok THEN [raised |-> TRUE, value |-> 0]
                  ELSE [raised |-> FALSE, value |-> page.thumbs.val]

\* the loop over desc_selectors: an element of one of them, in order
RECURSIVE DescSelectors(_)
DescSelectors(probes) ==
    IF probes = <<>> THEN [raised |-> FALSE, value |-> FALSE]
    ELSE IF ~Head(probes).ok THEN [raised |-> TRUE, value |-> FALSE]
         ELSE IF Head(probes).val > 0 THEN [raised |-> FALSE, value |-> TRUE]
              ELSE DescSelectors(Tail(probes))

DescriptionBlock(page) ==
    LET d == DescSelectors(page.desc)
    IN  IF d.raised \/ d.value THEN d
        ELSE [raised |-> FALSE, value |-> page_text(page).about]

ServicesBlock(page) ==
    IF ~page.svc.ok THEN [raised |-> TRUE, value |-> FALSE]
    ELSE [raised |-> FALSE,
          value |-> (page.svc.val > 0 \/ page_text(page).services)]

OwnerBlock(page) ==
    IF ~page.resp.ok THEN [raised |-> TRUE, value |-> FALSE]
    ELSE [raised |-> FALSE, value |-> page.resp.val > 0]

NewestReviewBlock(page) ==
    IF ~page.dates.ok THEN [raised |-> TRUE, value |-> <<>>]
    ELSE IF page.dates.val # <<>>
         THEN IF ~page.dates.val[1].ok THEN [raised |-> TRUE, value |-> <<>>]
              ELSE [raised |-> FALSE, value |-> Strip(page.dates.val[1].val)]
         ELSE [raised |-> FALSE, value |-> page_text(page).ago]

HoursBlock(page) ==
    IF ~page.hours.ok THEN [raised |-> TRUE, value |-> FALSE]
    ELSE [raised |-> FALSE,
          value |-> (page.hours.val > 0 \/ page_text(page).hours)]

\* A mutant of _extract_quality_signals: the newest-review block has no try,
\* so its exception leaves the function before the hours are looked at.
_extract_quality_signals_NoTry(listing, page) ==
    LET upto == [listing EXCEPT
                    !.photo_count = PhotoBlock(page).value,
                    !.has_description = DescriptionBlock(page).value,
                    !.has_services = ServicesBlock(page).value,
                    !.owner_responds = OwnerBlock(page).value,
                    !.newest_review = NewestReviewBlock(page).value]
    IN  IF NewestReviewBlock(page).raised
        THEN [raised |-> TRUE, listing |-> upto]
        ELSE [raised |-> FALSE,
              listing |-> [upto EXCEPT !.has_hours = HoursBlock(page).value]]

\* _extract_quality_signals(driver, listing): the listing as the call leaves
\* it; every block's exception ends in that block's `except Exception: pass`,
\* so none leaves the function
_extract_quality_signals(listing, page) ==
    [raised |-> FALSE,
     listing |-> [listing EXCEPT
                    !.photo_count = PhotoBlock(page).value,
                    !.has_description = DescriptionBlock(page).value,
                    !.has_services = ServicesBlock(page).value,
                    !.owner_responds = OwnerBlock(page).value,
                    !.newest_review = NewestReviewBlock(page).value,
                    !.has_hours = HoursBlock(page).value]]

\* a find_elements call: it raises, finds nothing, or finds two elements
CountProbes == {Probe(FALSE, 0), Probe(TRUE, 0), Probe(TRUE, 2)}

\* the pages the function is run on
PageSet ==
    [main : {Probe(FALSE, NoText), Probe(TRUE, NoText),
             Probe(TRUE, PageText(TRUE, TRUE, TxtDays, TRUE))},
     photo_btns :
        {Probe(FALSE, <<>>), Probe(TRUE, <<>>),
         Probe(TRUE, <<Probe(TRUE, AriaSeePhotos), Probe(TRUE, AriaPhotos12)>>),
         Probe(TRUE, <<Probe(TRUE, AriaPhotos0)>>),
         Probe(TRUE, <<Probe(FALSE, <<>>), Probe(TRUE, AriaPhotos12)>>),
         Probe(TRUE, <<Probe(TRUE, AriaPhotos1234), Probe(FALSE, <<>>)>>)},
     thumbs : CountProbes,
     desc : {<<Probe(TRUE, 0), Probe(TRUE, 0), Probe(TRUE, 0)>>,
             <<Probe(TRUE, 0), Probe(TRUE, 2), Probe(FALSE, 0)>>,
             <<Probe(TRUE, 0), Probe(FALSE, 0), Probe(TRUE, 2)>>,
             <<Probe(FALSE, 0), Probe(TRUE, 0), Probe(TRUE, 0)>>},
     svc : CountProbes,
     resp : CountProbes,
     dates : {Probe(FALSE, <<>>), Probe(TRUE, <<>>),
              Probe(TRUE, <<Probe(TRUE, <<" ">> \o TxtMonths3 \o <<" ">>),
                            Probe(TRUE, TxtDays)>>),
              Probe(TRUE, <<Probe(FALSE, <<>>), Probe(TRUE, TxtDays)>>)},
     hours : CountProbes]

InitSignals ==
    /\ InitStore
    /\ ScoreIdle
    /\ StaleIdle
    /\ MainIdle
    /\ CollectorIdle
    /\ FieldIdle
    /\ PendingIdle
    /\ dom \in PageSet
    /\ signals = <<>>

\* the call scrape_listing_detail makes once the panel has loaded
SignalsOne ==
    /\ signals = <<>>
    /\ signals' = <<_extract_quality_signals(StubOf(FullAce), dom)>>
    /\ UNCHANGED <<dom, storeVars, scoreVars, staleVars, mainVars,
                   collectorVars, fieldVars, pendingVars>>

NextSignals == SignalsOne

SpecSignals == InitSignals /\ [][NextSignals]_vars

\* ------------------------------------------------------------------------
\* C26: a signal that cannot be read
\* ------------------------------------------------------------------------

SignalKeys ==
    {"photo_count", "has_description", "has_services", "owner_responds",
     "newest_review", "has_hours"}

DefaultOf(key) ==
    CASE key = "photo_count" -> 0
      [] key = "newest_review" -> <<>>
      [] OTHER -> FALSE

\* of a row of lookups made in order until one has what is looked for: the
\* positions that raise and the positions that have it
Raising(probes) == {k \in 1..Len(probes) : ~probes[k].ok}
HavingCount(probes) == {k \in 1..Len(probes) : probes[k].ok /\ probes[k].val > 0}
HavingPhotos(probes) ==
    {k \in 1..Len(probes) : probes[k].ok /\ PhotoMatchStarts(probes[k].val) # {}}

\* a lookup raises before any lookup has what is looked for
RaisesFirst(raising, having) ==
    /\ raising # {}
    /\ having # {} => Min(raising) < Min(having)

\* the count the photo buttons' labels give, 0 when no label has one
LabelCount(page) ==
    LET having == HavingPhotos(page.photo_btns.val)
    IN  IF having = {} THEN 0
        ELSE PhotoMatchValue(page.photo_btns.val[Min(having)].val)

\* a lookup that the extraction of the signal makes on this page raises
Failed(key, page) ==
    CASE key = "photo_count" ->
            \/ ~page.photo_btns.ok
            \/ RaisesFirst(Raising(page.photo_btns.val),
                           HavingPhotos(page.photo_btns.val))
            \/ LabelCount(page) = 0 /\ ~page.thumbs.ok
      [] key = "has_description" ->
            RaisesFirst(Raising(page.desc), HavingCount(page.desc))
      [] key = "has_services" -> ~page.svc.ok
      [] key = "owner_responds" -> ~page.resp.ok
      [] key = "newest_review" ->
            \/ ~page.dates.ok
            \/ page.dates.val # <<>> /\ ~page.dates.val[1].ok
      [] key = "has_hours" -> ~page.hours.ok

\* what the signal's heuristics give on this page when none of its lookups
\* raises
Sound(key, page) ==
    LET text == IF page.main.ok THEN page.main.val ELSE NoText
    IN  CASE key = "photo_count" ->
                IF LabelCount(page) # 0 THEN LabelCount(page)
                ELSE page.thumbs.val
          [] key = "has_description" ->
                HavingCount(page.desc) # {} \/ text.about
          [] key = "has_services" -> page.svc.val > 0 \/ text.services
          [] key = "owner_responds" -> page.resp.val > 0
          [] key = "newest_review" ->
                IF page.dates.val # <<>> THEN Strip(page.dates.val[1].val)
                ELSE text.ago
          [] key = "has_hours" -> page.hours.val > 0 \/ text.hours

\* C26: in _extract_quality_signals a failure while one signal is extracted
\* leaves that signal alone at its default (photo_count 0, the booleans
\* false, newest_review empty); every other signal, those after it
\* included, has the value its own heuristics give; and the call returns
\* whatever fails.
C26_FailureStaysInItsSignal ==
    signals # <<>> =>
        /\ ~signals[1].raised
        /\ \A key \in SignalKeys :
              signals[1].listing[key] =
                 IF Failed(key, dom) THEN DefaultOf(key) ELSE Sound(key, dom)

\* the call has returned although the photo lookups and the review lookups
\* raised, with the signals between them and the one after them found
C26_Witness ==
    /\ signals # <<>>
    /\ Failed("photo_count", dom)
    /\ Failed("newest_review", dom)
    /\ signals[1].listing.has_description
    /\ signals[1].listing.has_services
    /\ signals[1].listing.has_hours
    /\ signals[1].listing.photo_count = 0
    /\ signals[1].listing.newest_review = <<>>

\* ------------------------------------------------------------------------
\* The pending handoff slot of the tracking UI (crm.py)
\* ------------------------------------------------------------------------

\* the most requests clients send in one behaviour
MaxRequests == 3

\* the JSON objects clients post to /api/pending: the Text button's body and
\* one without a msg key
PendingBodies ==
    {[phone |-> "(732) 555-0101", msg |-> "Hi Ace"],
     [phone |-> "(732) 555-0202", msg |-> "Hi Cat"],
     [phone |-> "(732) 555-0303"]}

\* body.get(key, "")
BodyGet(body, key) == IF key \in DOMAIN body THEN body[key] ELSE ""

\* a request on its way: sent and waiting for accept ("queued"), in its
\* handler at the statement named, or answered ("done"); `got` is the body
\* of the answer to a GET; `raced` records that a handler was running when
\* the request was sent
Request(kind, body, raced) ==
    [kind |-> kind, body |-> body, at |-> "queued", got |-> <<>>,
     raced |-> raced]

Queued == {i \in 1..Len(requests) : requests[i].at = "queued"}

\* a handler is running
Busy == \E i \in 1..Len(requests) : requests[i].at \notin {"queued", "done"}

\* a client sends GET /api/pending or POST /api/pending; the connection
\* waits on the listening socket
SendRequest(kind, body) ==
    /\ Len(requests) < MaxRequests
    /\ requests' = Append(requests, Request(kind, body, Busy))
    /\ UNCHANGED <<PENDING, lastPost, storeVars, scoreVars, staleVars,
                   mainVars, collectorVars, fieldVars, signalVars>>

\* A mutant of the server: a ThreadingHTTPServer, which starts a handler for
\* a waiting connection while others run.
AcceptRequest_Threaded ==
    /\ Queued # {}
    /\ LET i == Min(Queued)
       IN  requests' =
              [requests EXCEPT ![i].at =
                  IF requests[i].kind = "POST" THEN "phone" ELSE "read"]
    /\ UNCHANGED <<PENDING, lastPost, storeVars, scoreVars, staleVars,
                   mainVars, collectorVars, fieldVars, signalVars>>

\* HTTPServer.serve_forever: the one thread accepts the oldest waiting
\* connection when the handler before it has returned; do_GET or do_POST
\* starts, and do_POST reads and parses the body
AcceptRequest ==
    /\ ~Busy
    /\ Queued # {}
    /\ LET i == Min(Queued)
       IN  requests' =
              [requests EXCEPT ![i].at =
                  IF requests[i].kind = "POST" THEN "phone" ELSE "read"]
    /\ UNCHANGED <<PENDING, lastPost, storeVars, scoreVars, staleVars,
                   mainVars, collectorVars, fieldVars, signalVars>>

\* do_POST: PENDING["phone"] = body.get("phone", "")
SetPhone(i) ==
    /\ requests[i].at = "phone"
    /\ PENDING' = [PENDING EXCEPT !.phone = BodyGet(requests[i].body, "phone")]
    /\ requests' = [requests EXCEPT ![i].at = "msg"]
    /\ UNCHANGED <<lastPost, storeVars, scoreVars, staleVars, mainVars,
                   collectorVars, fieldVars, signalVars>>

\* do_POST: PENDING["msg"] = body.get("msg", "")
SetMsg(i) ==
    /\ requests[i].at = "msg"
    /\ PENDING' = [PENDING EXCEPT !.msg = BodyGet(requests[i].body, "msg")]
    /\ requests' = [requests EXCEPT ![i].at = "reply"]
    /\ lastPost' = i
    /\ UNCHANGED <<storeVars, scoreVars, staleVars, mainVars, collectorVars,
                   fieldVars, signalVars>>

\* do_POST: self._send_json({"ok": True}); the handler returns
PostReply(i) ==
    /\ requests[i].at = "reply"
    /\ requests' = [requests EXCEPT ![i].at = "done"]
    /\ UNCHANGED <<PENDING, lastPost, storeVars, scoreVars, staleVars,
                   mainVars, collectorVars, fieldVars, signalVars>>

\* do_GET: self._send_json(PENDING); the handler returns
GetReply(i) ==
    /\ requests[i].at = "read"
    /\ requests' = [requests EXCEPT ![i].at = "done", ![i].got = <<PENDING>>]
    /\ UNCHANGED <<PENDING, lastPost, storeVars, scoreVars, staleVars,
                   mainVars, collectorVars, fieldVars, signalVars>>

InitPending ==
    /\ InitStore
    /\ ScoreIdle
    /\ StaleIdle
    /\ MainIdle
    /\ CollectorIdle
    /\ FieldIdle
    /\ SignalIdle
    /\ PENDING = [phone |-> "", msg |-> ""]
    /\ requests = <<>>
    /\ lastPost = 0

NextPending ==
    \/ SendRequest("GET", <<>>)
    \/ \E body \in PendingBodies : SendRequest("POST", body)
    \/ AcceptRequest
    \/ \E i \in 1..Len(requests) : SetPhone(i)
    \/ \E i \in 1..Len(requests) : SetMsg(i)
    \/ \E i \in 1..Len(requests) : PostReply(i)
    \/ \E i \in 1..Len(requests) : GetReply(i)

SpecPending == InitPending /\ [][NextPending]_vars

\* ------------------------------------------------------------------------
\* C27: what GET /api/pending returns
\* ------------------------------------------------------------------------

\* what a POST with the body puts into the slot
SlotOf(body) == [phone |-> BodyGet(body, "phone"), msg |-> BodyGet(body, "msg")]

\* the slot as the POST handled last left it, empty before any POST
LastWritten ==
    IF lastPost = 0 THEN [phone |-> "", msg |-> ""]
    ELSE SlotOf(requests[lastPost].body)

\* C27: the pending slot is last-writer-wins and never expires: every
\* GET /api/pending is answered with the phone and the msg of one and the
\* same POST /api/pending, the one handled last before it, or with both
\* empty before any POST, however many requests wait or were answered in
\* between; no answer pairs the phone of one POST with the msg of another,
\* requests sent while a handler runs included.
C27_GetSeesLastPost ==
    /\ [][\A i \in 1..Len(requests) :
             GetReply(i) => requests'[i].got = <<LastWritten>>]_vars
    /\ [](\A i \in 1..Len(requests) :
             requests[i].got # <<>> =>
                \/ requests[i].got[1] = [phone |-> "", msg |-> ""]
                \/ \E j \in 1..(i - 1) :
                      /\ requests[j].kind = "POST"
                      /\ requests[i].got[1] = SlotOf(requests[j].body))
    /\ [](~Busy => PENDING = LastWritten)

\* a GET sent while a POST's handler was running has been answered with that
\* POST's phone and msg, which replaced those of an earlier POST
C27_Witness ==
    \E i \in 1..Len(requests) :
        /\ requests[i].kind = "GET"
        /\ requests[i].raced
        /\ requests[i].got # <<>>
        /\ lastPost = i - 1
        /\ requests[i].got[1] = SlotOf(requests[lastPost].body)
        /\ \E j \in 1..(lastPost - 1) :
              /\ requests[j].kind = "POST"
              /\ requests[j].at = "done"
              /\ SlotOf(requests[j].body) # requests[i].got[1]

\* ------------------------------------------------------------------------
\* C28: the stored score and the stored signals
\* ------------------------------------------------------------------------

\* a row as a reader gets it (dict(r)): the flags come back as the integers
\* they were bound to, and score_lead tests them for truth
RowListing(r) ==
    [r EXCEPT !.has_description = (@ # 0), !.has_services = (@ # 0),
              !.owner_responds = (@ # 0), !.has_hours = (@ # 0)]

\* C28: after any sequence of pipeline runs, tracking-UI updates and
\* deletes, every committed row's lead_score and score_reasons are what
\* score_lead gives for the review_count, rating, photo_count,
\* has_description, has_services, owner_responds, newest_review and website
\* of that same row.
C28_ScoreMatchesSignals ==
    \A i \in 1..Len(table) :
        LET r == score_lead(RowListing(table[i]))
        IN  /\ table[i].lead_score = r.score
            /\ table[i].score_reasons = Join(r.reasons)

\* a row the tracking UI had marked was written again by a later run, from
\* a listing with other signals and another score than a listing of the
\* same link has
C28_Witness ==
    \E i \in 1..Len(table) :
        LET l == table[i].maps_link
        IN  /\ table[i].contact_status # "new"
            /\ l \notin crmSince
            /\ table[i].scraped_at < table[i].updated_at
            /\ lastScrape[l] # <<>>
            /\ lastScrape[l][1].lead.name = table[i].name
            /\ \E x \in Samples :
                  /\ x.maps_link = l
                  /\ Scored(x).lead_score # table[i].lead_score

\* ------------------------------------------------------------------------
\* C29: a deleted lead that is scraped again
\* ------------------------------------------------------------------------

\* the row of the link as an INSERT of the run writing at time t leaves it,
\* later than the row that was deleted
FreshSince(rows, link, t, old) ==
    /\ HasRow(rows, link)
    /\ LET r == RowOf(rows, link)
       IN  /\ r.contact_status = "new"
           /\ r.last_contacted = NullText
           /\ r.notes = NullText
           /\ r.scraped_at = t
           /\ old.scraped_at < r.scraped_at

SaveOutputsFails(json_written) ==
    /\ pc = "stored"
    /\ output' = IF json_written
                 THEN <<[json |-> OutputListings(batch, show_all, min_score)]>>
                 ELSE <<>>
    /\ exit_code' = 1
    /\ pc' = "finally"
    /\ UNCHANGED <<table, inTxn, work, batch, query, clock, upsertVars,
                   historyVars, scoreVars, staleVars, apartVars, collectorVars,
                   min_score, show_all, driver, screenshot, collected, pos,
                   detail, table0>>

\* a run of main with the faults of the store and of the output writer
NextMainFaults ==
    \/ \E q \in Queries, min \in MinScores, all \in BOOLEAN : MainStart(q, min, all)
    \/ SearchTimeout
    \/ \E stubs \in StubBatches \cup {<<>>} : Collect(stubs)
    \/ \E e \in DetailEnds : Enrich(e[1], e[2])
    \/ ScorePhase
    \/ UpsertBegin
    \/ UpsertSelect
    \/ UpsertWrite
    \/ UpsertWriteFails
    \/ UpsertCommit
    \/ SaveOutputs
    \/ \E json_written \in BOOLEAN : SaveOutputsFails(json_written)
    \/ StoreErrorLeavesMain
    \/ DriverQuit

SpecMainFaults == InitMain /\ [][NextMainFaults]_vars

\* the finally clause runs once the try block is left: driver.quit() is
\* called and returns
SpecMainFaultsLive == SpecMainFaults /\ WF_vars(DriverQuit)

\* the ways the try block of main is left
EndedBy ==
    CASE pc \notin {"finally", "exited"} -> "running"
      [] screenshot -> "no results"
      [] collected = <<>> -> "no listings"
      [] failedAt # 0 -> "store error"
      [] exit_code = 1 -> "output error"
      [] OTHER -> "completed"

\* C30: from create_driver on, the session is open as long as main is inside
\* its try block; however the block is left (normal completion, sys.exit(1)
\* on no results or no listings, an exception of the store or of the output
\* writer), driver.quit() follows, it is called on an open session and
\* nothing is called after it: the process has ended with the session
\* released exactly once.
C30_SessionReleasedOnce ==
    /\ [](pc \notin {"idle", "exited"} => driver = "open")
    /\ [](pc = "exited" => driver = "quit")
    /\ [][pc' = "exited" /\ pc # "exited"
            => driver = "open" /\ driver' = "quit"]_vars
    /\ [][driver = "quit" => UNCHANGED vars]_vars
    /\ (pc = "finally") ~> (pc = "exited")

\* the spreadsheet could not be written after the rows were committed and
\* the JSON file saved; the session has been released
C30_Witness ==
    /\ pc = "exited"
    /\ driver = "quit"
    /\ EndedBy = "output error"
    /\ output # <<>>
    /\ table # table0

====
